---- MODULE Spec2Model ----
(***************************************************************************)
(* Site Scout: the category queries of scout/infra.py (pipelines,          *)
(* transmission lines, substations), the polyline resolver                  *)
(* _nearest_on_paths, and the orchestrator main() of main.py.               *)
(*                                                                         *)
(* Units.  Latitudes and longitudes are integers in hundredths of a        *)
(* degree (6001 is 60.01 N, -15000 is 150.00 W).  Distances are integers   *)
(* in quarter kilometres, so every distance is a float that Python holds   *)
(* exactly and round() meets exact ties, which it sends to the even        *)
(* neighbour.  A Python str is a sequence of one-character strings.        *)
(***************************************************************************)
EXTENDS Integers, Sequences, FiniteSets, TLC

VARIABLES
    fn,             \* the query function that is running
    data,           \* the kind of payload resp.json() gave, "none" before
    lat, lon,       \* its query point
    radius_km,      \* its search radius
    operators,      \* query_pipelines: the watch-list
    min_voltage_kv, \* query_transmission_lines: the voltage threshold
    shapely,        \* TRUE iff the shapely package can be imported
    pc,             \* position in the query function
    features,       \* data["features"] as far as the for loop has consumed it
    results,        \* the local list `results`
    seen,           \* the local set `seen`
    resolved,       \* the records for which _nearest_on_paths was called
    ret,            \* the value the function returned (once pc = "done")
    warned          \* TRUE iff the function printed a "Warning: ..." line

VARIABLES
    args,           \* main: the parsed command line [lat, lon, radius, format]
    mpc,            \* main: position in main()
    config,         \* main: what load_config() returned
    calls,          \* main: the category queries issued so far, in order
    bundle,         \* main: the dict `results`
    exit_code,      \* main: the status of sys.exit, None while running
    printed         \* main: the report written to stdout, None if none

VARIABLES
    fs,             \* the file system: [dir, file], the directory "cache" and
                    \* the content of cache/epa_nonattainment.json
    reg,            \* check_attainment: its position, locals and results
    threads         \* concurrent callers of the queries, one record each

qvars == <<fn, data, lat, lon, radius_km, operators, min_voltage_kv, shapely,
           pc, features, results, seen, resolved, ret, warned>>

mvars == <<args, mpc, config, calls, bundle, exit_code, printed>>

xvars == <<fs, reg, threads>>

vars == <<qvars, mvars, xvars>>

(***************************************************************************)
(* Python values                                                           *)
(***************************************************************************)
None == [t |-> "none"]
Str(s) == [t |-> "str", v |-> s]
Num(n) == [t |-> "num", v |-> n]
\* a key that the mapping does not hold (dict.get then yields its default)
Absent == [t |-> "absent"]

Unknown == Str(<<"U", "n", "k", "n", "o", "w", "n">>)

\* dict.get(key, default): the default only when the key is absent; a key
\* that is present with the value null yields None
Get(value, default) == IF value = Absent THEN default ELSE value

\* str.lower() on one character, and on a string
LowerChar(c) ==
    CASE c = "K" -> "k"
      [] c = "M" -> "m"
      [] c = "T" -> "t"
      [] c = "A" -> "a"
      [] c = "U" -> "u"
      [] c = "N" -> "n"
      [] c = "V" -> "v"
      [] OTHER -> c

Lower(s) == [i \in 1..Len(s) |-> LowerChar(s[i])]

\* Python's `t in s` for two strings
Contains(t, s) ==
    \E i \in 0..(Len(s) - Len(t)) :
        \A j \in 1..Len(t) : s[i + j] = t[j]

\* the decimal digits of a natural number, as a string
DigitChars == <<"0", "1", "2", "3", "4", "5", "6", "7", "8", "9">>

RECURSIVE Decimal(_)
Decimal(n) ==
    IF n < 10 THEN <<DigitChars[n + 1]>>
    ELSE Decimal(n \div 10) \o <<DigitChars[(n % 10) + 1]>>

\* str(x) of an attribute value (a string, a number or None), as str() and
\* an f-string give it
ToStr(x) ==
    CASE x.t = "str" -> x.v
      [] x.t = "num" -> IF x.v < 0 THEN <<"-">> \o Decimal(-x.v) ELSE Decimal(x.v)
      [] OTHER -> <<"N", "o", "n", "e">>

\* s.replace("kV", ""): every occurrence, left to right
RECURSIVE RemoveKV(_)
RemoveKV(s) ==
    IF Len(s) = 0 THEN s
    ELSE IF Len(s) >= 2 /\ s[1] = "k" /\ s[2] = "V" THEN RemoveKV(SubSeq(s, 3, Len(s)))
    ELSE <<s[1]>> \o RemoveKV(Tail(s))

\* s.strip()
RECURSIVE Strip(_)
Strip(s) ==
    IF Len(s) = 0 THEN s
    ELSE IF s[1] = " " THEN Strip(Tail(s))
    ELSE IF s[Len(s)] = " " THEN Strip(SubSeq(s, 1, Len(s) - 1))
    ELSE s

DigitValue(c) == CHOOSE d \in 0..9 : DigitChars[d + 1] = c

IsDigit(c) == \E d \in 0..9 : DigitChars[d + 1] = c

RECURSIVE DigitsValue(_, _)
DigitsValue(s, acc) ==
    IF Len(s) = 0 THEN acc
    ELSE DigitsValue(Tail(s), 10 * acc + DigitValue(s[1]))

\* int(s): [ok, v]; ok is FALSE where int raises ValueError
ParseInt(s) ==
    LET neg == Len(s) > 0 /\ s[1] = "-"
        body == IF Len(s) > 0 /\ s[1] \in {"-", "+"} THEN Tail(s) ELSE s
    IN  IF Len(body) > 0 /\ \A i \in 1..Len(body) : IsDigit(body[i])
        THEN [ok |-> TRUE,
              v |-> IF neg THEN -DigitsValue(body, 0) ELSE DigitsValue(body, 0)]
        ELSE [ok |-> FALSE, v |-> 0]

(***************************************************************************)
(* scout/geo_utils.py                                                      *)
(***************************************************************************)
Abs(n) == IF n < 0 THEN -n ELSE n

\* haversine_distance on the grid 60.00..60.04 N by 0.01 degree steps, in
\* quarter kilometres: round(4 * haversine_distance(...)).  On this grid the
\* value depends only on |dlat| and |dlon| (both in hundredths of a degree).
HaversineTable ==
    << <<0, 2, 4, 7, 9>>,
       <<4, 5, 6, 8, 10>>,
       <<9, 9, 10, 11, 13>>,
       <<13, 14, 14, 15, 16>>,
       <<18, 18, 18, 19, 20>> >>

haversine_distance(lat1, lon1, lat2, lon2) ==
    HaversineTable[Abs(lat2 - lat1) + 1][Abs(lon2 - lon1) + 1]

\* round(d, 0) of a distance d (quarter km), in whole km; ties to even
Round0(d) ==
    LET q == d \div 4
        r == d % 4
    IN  IF r < 2 THEN q
        ELSE IF r > 2 THEN q + 1
        ELSE IF q % 2 = 0 THEN q ELSE q + 1

\* round(d, 1) of a distance d (quarter km), in tenths of a km: x.25 is a
\* tie and goes to x.2, x.75 is a tie and goes to x.8
Round1(d) ==
    LET q == d \div 4
        r == d % 4
    IN  10 * q + (CASE r = 0 -> 0 [] r = 1 -> 2 [] r = 2 -> 5 [] OTHER -> 8)

(***************************************************************************)
(* scout/infra.py: _nearest_on_paths                                       *)
(***************************************************************************)
\* best_dist = 999999 (km), in quarter km
Sentinel == 3999996

\* A vertex is a JSON list <<lon, lat>>; a third number is an elevation.
\* LineString(path) raises when the coordinate lists are not all of one
\* dimension, or have fewer than two numbers.
LineStringRaises(path) ==
    \E i \in 1..Len(path) :
        \/ Len(path[i]) < 2
        \/ Len(path[i]) # Len(path[1])

\* The point of the segment a-b nearest to q in the plane of (lon, lat)
\* degrees; points are <<lon, lat>>.  The foot of the perpendicular is
\* a + (num / len2) * (b - a), clamped to the segment.
Foot(q, a, b) ==
    LET dx == b[1] - a[1]
        dy == b[2] - a[2]
        len2 == dx * dx + dy * dy
        num == (q[1] - a[1]) * dx + (q[2] - a[2]) * dy
    IN  IF len2 = 0 \/ num <= 0 THEN <<a[1], a[2]>>
        ELSE IF num >= len2 THEN <<b[1], b[2]>>
        ELSE <<a[1] + (num * dx) \div len2, a[2] + (num * dy) \div len2>>

\* TRUE iff the foot of the perpendicular from q on a-b is a grid point, so
\* that Foot is exact
FootOnGrid(q, a, b) ==
    LET dx == b[1] - a[1]
        dy == b[2] - a[2]
        len2 == dx * dx + dy * dy
        num == (q[1] - a[1]) * dx + (q[2] - a[2]) * dy
    IN  \/ len2 = 0 \/ num <= 0 \/ num >= len2
        \/ (num * dx) % len2 = 0 /\ (num * dy) % len2 = 0

PlanarDist2(q, p) ==
    (p[1] - q[1]) * (p[1] - q[1]) + (p[2] - q[2]) * (p[2] - q[2])

\* nearest_points(query_pt, LineString(path))[1]: a point of the polyline
\* at the least planar distance from the query point
nearest_points(q, path) ==
    LET feet == {Foot(q, path[i], path[i + 1]) : i \in 1..(Len(path) - 1)}
    IN  CHOOSE f \in feet : \A g \in feet : PlanarDist2(q, f) <= PlanarDist2(q, g)

\* a (lat, lon) tuple
Pt(plat, plon) == [t |-> "pt", lat |-> plat, lon |-> plon]

\* the comparison with best_dist left out: the last candidate wins
Take_Last(st, d, p) == [st EXCEPT !.dist = d, !.nearest = p]

\* `if d < best_dist: best_dist = d; best_nearest = ...` on the resolver's
\* locals st = [raised, dist, nearest]
Take(st, d, p) ==
    IF d < st.dist THEN [st EXCEPT !.dist = d, !.nearest = p] ELSE st

\* The except branch, `for c in path` from vertex i on: c[1] raises
\* IndexError on a vertex with fewer than two numbers
RECURSIVE VertexScan(_, _, _, _, _)
VertexScan(plat, plon, path, i, st) ==
    IF i > Len(path) THEN st
    ELSE IF Len(path[i]) < 2 THEN [st EXCEPT !.raised = TRUE]
    ELSE LET c == path[i]
         IN  VertexScan(plat, plon, path, i + 1,
                 Take(st, haversine_distance(plat, plon, c[2], c[1]),
                      Pt(c[2], c[1])))

\* One pass of the body of `for path in paths`
ResolvePath(plat, plon, path, st) ==
    IF Len(path) < 2 THEN
        IF Len(path) = 0 THEN st
        ELSE IF Len(path[1]) < 2 THEN [st EXCEPT !.raised = TRUE]
        ELSE LET c == path[1]
             IN  Take(st, haversine_distance(plat, plon, c[2], c[1]),
                      Pt(c[2], c[1]))
    ELSE IF LineStringRaises(path) THEN VertexScan(plat, plon, path, 1, st)
    ELSE LET np == nearest_points(<<plon, plat>>, path)
         IN  Take(st, haversine_distance(plat, plon, np[2], np[1]),
                  Pt(np[2], np[1]))

RECURSIVE ResolvePaths(_, _, _, _, _)
ResolvePaths(plat, plon, paths, i, st) ==
    IF i > Len(paths) \/ st.raised THEN st
    ELSE ResolvePaths(plat, plon, paths, i + 1,
                      ResolvePath(plat, plon, paths[i], st))

\* _nearest_on_paths(plat, plon, paths) where `installed` tells whether the
\* two shapely imports at the top of the function succeed.  The result is
\* [raised, dist, nearest]: raised means an exception left the function,
\* otherwise (dist, nearest) is the returned pair.
_nearest_on_paths(installed, plat, plon, paths) ==
    LET st0 == [raised |-> FALSE, dist |-> Sentinel, nearest |-> None]
    IN  IF ~installed THEN [st0 EXCEPT !.raised = TRUE]
        ELSE ResolvePaths(plat, plon, paths, 1, st0)

(***************************************************************************)
(* Bounds and inputs                                                       *)
(***************************************************************************)
\* the longest response (number of raw records) a query is given
MaxBatch == 3

\* a vertex <<lon, lat>> of the grid, dx and dy hundredths of a degree east
\* and north of (60.00 N, 150.00 W); V3 carries an elevation too
V(dx, dy) == <<-15000 + dx, 6000 + dy>>
V3(dx, dy) == <<-15000 + dx, 6000 + dy, 0>>

\* the query points
QueryLats == {6000}
QueryLons == {-15000}

\* watch-lists: none, and ["KM"]
WatchLists == {<<>>, << <<"K", "M">> >>}

\* geometries of polyline records
GeomNorth == [paths |-> << <<V(0, 1)>> >>]             \* one vertex, 1.0 km
GeomEast == [paths |-> << <<V(1, 0)>> >>]              \* one vertex, 0.5 km
GeomDiag == [paths |-> << <<V(2, 0), V(0, 2)>> >>]     \* a segment, NE
GeomTwo == [paths |-> << <<V(3, 1)>>, <<V(1, 0), V(1, 2)>> >>]
GeomLine == [paths |-> << <<V(1, 1), V(1, 0)>> >>]     \* a segment, E
\* one vertex N (the nearest), an empty path, a segment NE
GeomMixed == [paths |-> << <<V(0, 1)>>, <<>>, <<V(2, 0), V(0, 2)>> >>]
GeomRagged == [paths |-> << <<V3(1, 1), V(1, 0)>> >>]  \* LineString raises
GeomEmptyPath == [paths |-> << <<>> >>]
GeomNoPaths == [paths |-> <<>>]
GeomShortVertex == [paths |-> << << <<-15000>> >> >>]  \* a vertex [lon]

(***************************************************************************)
(* scout/geo_utils.py, continued                                           *)
(***************************************************************************)
\* round(km_to_miles(d), 1) of a distance d (quarter km), in tenths of a
\* mile: d/4 * 0.621371, times ten, to the nearest integer, that is
\* d * 621371 / 400000 rounded; the product is taken in parts so that the
\* distance 999999 km stays within the integers of the checker
km_to_miles_rounded(d) ==
    LET q == d \div 400000
        r == d % 400000
        a == r \div 1000
        b == r % 1000
        x == a * 621371
    IN  q * 621371 + x \div 400
          + ((x % 400) * 1000 + b * 621371 + 200000) \div 400000

(***************************************************************************)
(* scout/infra.py and scout/regulatory.py: ensure_cache_dir                *)
(* (both modules define it, on the same relative path "cache")             *)
(***************************************************************************)
\* a file system without the cache directory
NoCache == [dir |-> FALSE, file |-> Absent]

\* check_attainment is not running and has not been called
RegIdle ==
    [pc |-> "idle", county_fips |-> None, county_name |-> None,
     nonattainment_data |-> None, result |-> None, calls |-> 0]

\* os.path.exists(CACHE_DIR)
PathExists(fsv) == fsv.dir

\* os.makedirs(CACHE_DIR): [raised, fs]; FileExistsError when the directory
\* is there already (exist_ok is not given)
makedirs(fsv) == [raised |-> fsv.dir, fs |-> [fsv EXCEPT !.dir = TRUE]]

\* ensure_cache_dir() run without interruption: [raised, fs]
ensure_cache_dir(fsv) ==
    IF PathExists(fsv) THEN [raised |-> FALSE, fs |-> fsv] ELSE makedirs(fsv)

(***************************************************************************)
(* scout/infra.py: query_pipelines                                         *)
(***************************************************************************)
\* data["features"]: KeyError on a payload without the entry
GetFeatures_Index(kind) == [raised |-> kind = "nokey"]

\* data.get("features", []) on a payload of the given kind: the list when
\* the entry is there ("ok"), the default [] when it is not ("nokey"); it
\* never raises
GetFeatures(kind) == [raised |-> FALSE]

\* list.sort(key=lambda x: x["distance_km"]): a stable sort, an element goes
\* behind every element whose key is not greater
\* an unstable sort: an element goes in front of the elements with its key
InsertByDistance_Unstable(sorted, f) ==
    LET n == Cardinality({i \in 1..Len(sorted) :
                             sorted[i].distance_km < f.distance_km})
    IN  SubSeq(sorted, 1, n) \o <<f>> \o SubSeq(sorted, n + 1, Len(sorted))

InsertByDistance(sorted, f) ==
    LET n == Cardinality({i \in 1..Len(sorted) :
                             sorted[i].distance_km <= f.distance_km})
    IN  SubSeq(sorted, 1, n) \o <<f>> \o SubSeq(sorted, n + 1, Len(sorted))

RECURSIVE SortFrom(_, _, _)
SortFrom(list, i, sorted) ==
    IF i > Len(list) THEN sorted
    ELSE SortFrom(list, i + 1, InsertByDistance(sorted, list[i]))

\* the sort left out
SortByDistance_None(list) == list

SortByDistance(list) == SortFrom(list, 1, <<>>)

\* bool(x) of an attribute value
Truthy(x) ==
    CASE x.t = "num" -> x.v # 0
      [] x.t = "str" -> Len(x.v) > 0
      [] OTHER -> FALSE

\* target_ops = [o.lower() for o in (operators or [])]
TargetOps(ops) == [i \in 1..Len(ops) |-> Lower(ops[i])]

\* f"{operator}_{round(dist, 0)}": the text of round(dist, 0) holds no "_",
\* so the string determines both parts and is held as the pair
PipelineDedupKey(operator, dist) ==
    [owner |-> ToStr(operator), km |-> Round0(dist)]

\* the test of the resolver's result left out
NoNearest_Ignored(r) == FALSE

\* `if nearest is None: continue` on what _nearest_on_paths returned
NoNearest(r) == r.nearest = None

\* the dedup test left out
AlreadySeen_Never(dedup_key, seenset) == FALSE

\* `if dedup_key in seen: continue`
AlreadySeen(dedup_key, seenset) == dedup_key \in seenset

\* The body of `for feat in data.get("features", [])` on the locals
\* st = [raised, results, seen, resolved]; raised means an exception left
\* the body (and reaches `except Exception` of the function).
PipelinesBody(st, feat, plat, plon, ops, installed) ==
    IF feat.attributes = Absent THEN [st EXCEPT !.raised = TRUE]
    ELSE
    LET attrs == feat.attributes
        geom == Get(feat.geometry, [paths |-> <<>>])
        paths == geom.paths
    IN  IF Len(paths) = 0 THEN st
        ELSE
        LET r == _nearest_on_paths(installed, plat, plon, paths)
            st1 == [st EXCEPT !.resolved = Append(@, feat)]
        IN  IF r.raised THEN [st1 EXCEPT !.raised = TRUE]
            ELSE IF NoNearest(r) THEN st1
            ELSE
            LET operator == Get(attrs.Operator, Unknown)
                dedup_key == PipelineDedupKey(operator, r.dist)
                target_ops == TargetOps(ops)
                fid == Get(attrs.FID, None)
            IN  IF AlreadySeen(dedup_key, st1.seen) THEN st1
                ELSE IF Len(target_ops) > 0 /\ operator.t # "str"
                THEN [st1 EXCEPT !.raised = TRUE,
                                 !.seen = @ \cup {dedup_key}]
                ELSE [st1 EXCEPT
                        !.seen = @ \cup {dedup_key},
                        !.results = Append(@,
                          [operator |-> operator,
                           distance_km |-> Round1(r.dist),
                           distance_mi |-> km_to_miles_rounded(r.dist),
                           nearest_point |-> r.nearest,
                           is_target_operator |->
                               (Len(target_ops) > 0 /\
                                \E i \in 1..Len(target_ops) :
                                    Contains(target_ops[i], Lower(operator.v))),
                           record_url |-> IF Truthy(fid) THEN fid ELSE None])]

\* TRUE iff _nearest_on_paths is exact on the grid for this geometry: the
\* foot of the perpendicular on every segment is a grid point
OnGrid(plat, plon, geom) ==
    geom = Absent \/
    \A k \in 1..Len(geom.paths) :
        LET path == geom.paths[k]
        IN  LineStringRaises(path) \/
            \A i \in 1..(Len(path) - 1) :
                FootOnGrid(<<plon, plat>>, path[i], path[i + 1])

\* the raw records a pipeline response is made of; the service numbers the
\* records, so the i-th record of a response has FID i
PipelineOperators ==
    {Str(<<"K", "M">>), Str(<<"a", "b">>), None, Absent}

PipelineRecords(i) ==
    {[attributes |-> [FID |-> Num(i), Operator |-> o], geometry |-> g] :
        o \in PipelineOperators, g \in {GeomNorth, GeomEast, GeomDiag}}
    \cup
    {[attributes |-> [FID |-> Num(i), Operator |-> Str(<<"K", "M">>)],
      geometry |-> g] :
        g \in {GeomTwo, GeomMixed, GeomLine, GeomRagged, GeomEmptyPath,
               GeomNoPaths, GeomShortVertex, Absent}}
    \cup
    {[attributes |-> Absent, geometry |-> GeomEast]}

QueryPipelinesFetch ==
    /\ fn = "query_pipelines" /\ pc = "fetch"
    /\ \E outcome \in {"ok", "nokey", "error", "raise"} :
        /\ data' = outcome
        /\ IF outcome \in {"ok", "nokey"} /\ ~GetFeatures(outcome).raised
           THEN /\ pc' = "loop"
                /\ UNCHANGED <<ret, warned>>
           ELSE /\ pc' = "done"
                /\ ret' = <<>>
                /\ warned' = TRUE
    /\ results' = <<>>
    /\ seen' = {}
    /\ UNCHANGED <<fn, lat, lon, radius_km, operators, min_voltage_kv,
                   shapely, features, resolved>>
    /\ UNCHANGED mvars
    /\ fs' = ensure_cache_dir(fs).fs
    /\ UNCHANGED <<reg, threads>>

QueryPipelinesFeature ==
    /\ fn = "query_pipelines" /\ pc = "loop"
    /\ data = "ok"
    /\ Len(features) < MaxBatch
    /\ \E feat \in {f \in PipelineRecords(Len(features) + 1) :
                        OnGrid(lat, lon, f.geometry)} :
        LET st == PipelinesBody(
                    [raised |-> FALSE, results |-> results, seen |-> seen,
                     resolved |-> resolved],
                    feat, lat, lon, operators, shapely)
        IN  /\ features' = Append(features, feat)
            /\ results' = st.results
            /\ seen' = st.seen
            /\ resolved' = st.resolved
            /\ IF st.raised
               THEN pc' = "done" /\ ret' = <<>> /\ warned' = TRUE
               ELSE UNCHANGED <<pc, ret, warned>>
    /\ UNCHANGED <<fn, data, lat, lon, radius_km, operators, min_voltage_kv,
                   shapely>>
    /\ UNCHANGED mvars
    /\ UNCHANGED xvars

QueryPipelinesReturn ==
    /\ fn = "query_pipelines" /\ pc = "loop"
    /\ pc' = "done"
    /\ results' = SortByDistance(results)
    /\ ret' = results'
    /\ UNCHANGED <<fn, data, lat, lon, radius_km, operators, min_voltage_kv,
                   shapely, features, seen, resolved, warned>>
    /\ UNCHANGED mvars
    /\ UNCHANGED xvars

(***************************************************************************)
(* scout/infra.py: query_transmission_lines                                *)
(***************************************************************************)
\* voltage = attrs.get("VOLTAGE", 0);
\* int(str(voltage).replace("kV", "").strip()), and 0 where that raises
ParseVoltage(value) ==
    LET p == ParseInt(Strip(RemoveKV(ToStr(Get(value, Num(0))))))
    IN  IF p.ok THEN p.v ELSE 0

\* the voltage filter left out
BelowMinimum_Never(voltage, min_kv) == FALSE

\* `if voltage < min_voltage_kv: continue`
BelowMinimum(voltage, min_kv) == voltage < min_kv

\* f"{owner}_{voltage}_{round(dist, 0)}": voltage is an int and the text of
\* round(dist, 0) holds no "_", so the string determines the three parts
TransmissionDedupKey(owner, voltage, dist) ==
    [owner |-> ToStr(owner), voltage |-> voltage, km |-> Round0(dist)]

\* The body of the for loop of query_transmission_lines, on the locals
\* st = [raised, results, seen, resolved]
TransmissionBody(st, feat, plat, plon, min_kv, installed) ==
    IF feat.attributes = Absent THEN [st EXCEPT !.raised = TRUE]
    ELSE
    LET attrs == feat.attributes
        geom == Get(feat.geometry, [paths |-> <<>>])
        paths == geom.paths
        voltage == ParseVoltage(attrs.VOLTAGE)
    IN  IF Len(paths) = 0 THEN st
        ELSE IF BelowMinimum(voltage, min_kv) THEN st
        ELSE
        LET r == _nearest_on_paths(installed, plat, plon, paths)
            st1 == [st EXCEPT !.resolved = Append(@, feat)]
        IN  IF r.raised THEN [st1 EXCEPT !.raised = TRUE]
            ELSE IF NoNearest(r) THEN st1
            ELSE
            LET owner == Get(attrs.OWNER, Unknown)
                dedup_key == TransmissionDedupKey(owner, voltage, r.dist)
                oid == Get(attrs.OBJECTID_1, None)
            IN  IF AlreadySeen(dedup_key, st1.seen) THEN st1
                ELSE [st1 EXCEPT
                        !.seen = @ \cup {dedup_key},
                        !.results = Append(@,
                          [owner |-> owner,
                           voltage_kv |-> voltage,
                           distance_km |-> Round1(r.dist),
                           distance_mi |-> km_to_miles_rounded(r.dist),
                           nearest_point |-> r.nearest,
                           record_url |-> IF Truthy(oid) THEN oid ELSE None])]

TransmissionVoltages ==
    {Num(138), Str(<<"6", "9", "k", "V">>), Num(34), Str(<<"n", "a">>)}

TransmissionRecords(i) ==
    {[attributes |-> [OBJECTID_1 |-> Num(i), OWNER |-> o, VOLTAGE |-> v],
      geometry |-> g] :
        o \in {Str(<<"K", "M">>), Absent}, v \in TransmissionVoltages,
        g \in {GeomNorth, GeomDiag}}
    \cup
    {[attributes |-> [OBJECTID_1 |-> Num(i), OWNER |-> o, VOLTAGE |-> Num(138)],
      geometry |-> GeomEast] : o \in {Str(<<"K", "M">>), None}}
    \cup
    {[attributes |-> [OBJECTID_1 |-> Num(i), OWNER |-> Str(<<"K", "M">>),
                      VOLTAGE |-> Absent],
      geometry |-> GeomEast]}
    \cup
    {[attributes |-> [OBJECTID_1 |-> Num(i), OWNER |-> Str(<<"K", "M">>),
                      VOLTAGE |-> Num(138)],
      geometry |-> g] : g \in {GeomEmptyPath, GeomShortVertex}}
    \cup
    {[attributes |-> Absent, geometry |-> GeomEast]}

QueryTransmissionFetch ==
    /\ fn = "query_transmission_lines" /\ pc = "fetch"
    /\ \E outcome \in {"ok", "nokey", "error", "raise"} :
        /\ data' = outcome
        /\ IF outcome \in {"ok", "nokey"} /\ ~GetFeatures(outcome).raised
           THEN /\ pc' = "loop"
                /\ UNCHANGED <<ret, warned>>
           ELSE /\ pc' = "done"
                /\ ret' = <<>>
                /\ warned' = TRUE
    /\ results' = <<>>
    /\ seen' = {}
    /\ UNCHANGED <<fn, lat, lon, radius_km, operators, min_voltage_kv,
                   shapely, features, resolved>>
    /\ UNCHANGED mvars
    /\ fs' = ensure_cache_dir(fs).fs
    /\ UNCHANGED <<reg, threads>>

QueryTransmissionFeature ==
    /\ fn = "query_transmission_lines" /\ pc = "loop"
    /\ data = "ok"
    /\ Len(features) < MaxBatch
    /\ \E feat \in {f \in TransmissionRecords(Len(features) + 1) :
                        OnGrid(lat, lon, f.geometry)} :
        LET st == TransmissionBody(
                    [raised |-> FALSE, results |-> results, seen |-> seen,
                     resolved |-> resolved],
                    feat, lat, lon, min_voltage_kv, shapely)
        IN  /\ features' = Append(features, feat)
            /\ results' = st.results
            /\ seen' = st.seen
            /\ resolved' = st.resolved
            /\ IF st.raised
               THEN pc' = "done" /\ ret' = <<>> /\ warned' = TRUE
               ELSE UNCHANGED <<pc, ret, warned>>
    /\ UNCHANGED <<fn, data, lat, lon, radius_km, operators, min_voltage_kv,
                   shapely>>
    /\ UNCHANGED mvars
    /\ UNCHANGED xvars

QueryTransmissionReturn ==
    /\ fn = "query_transmission_lines" /\ pc = "loop"
    /\ pc' = "done"
    /\ results' = SortByDistance(results)
    /\ ret' = results'
    /\ UNCHANGED <<fn, data, lat, lon, radius_km, operators, min_voltage_kv,
                   shapely, features, seen, resolved, warned>>
    /\ UNCHANGED mvars
    /\ UNCHANGED xvars

\* y_rad = math.log(math.tan((90 + lat) * math.pi / 360)) / ..., ahead of
\* the function's try: at lat = -90 the tangent is 0.0 and math.log raises
\* ValueError
MercatorRaises(plat) == plat = -9000

(***************************************************************************)
(* scout/infra.py: query_substations                                       *)
(***************************************************************************)
\* The body of the for loop of query_substations, on the locals
\* st = [raised, results, seen, resolved] (seen and resolved stay as they
\* are: the function has no dedup set and calls no resolver)
SubstationsBody(st, feat, plat, plon) ==
    IF feat.attributes = Absent THEN [st EXCEPT !.raised = TRUE]
    ELSE
    LET attrs == feat.attributes
        alat == Get(attrs.LATITUDE, None)
        alon == Get(attrs.LONGITUDE, None)
        geom == Get(feat.geometry, [x |-> Absent, y |-> Absent])
        fallback == ~Truthy(alat) \/ ~Truthy(alon)
        slat == IF fallback THEN Get(geom.y, None) ELSE alat
        slon == IF fallback THEN Get(geom.x, None) ELSE alon
    IN  IF ~Truthy(slat) \/ ~Truthy(slon) THEN st
        ELSE IF slat.t # "num" \/ slon.t # "num" THEN [st EXCEPT !.raised = TRUE]
        ELSE
        LET dist == haversine_distance(plat, plon, slat.v, slon.v)
            oid == Get(attrs.OBJECTID, None)
        IN  [st EXCEPT !.results = Append(@,
                [name |-> Get(attrs.NAME, Unknown),
                 distance_km |-> Round1(dist),
                 distance_mi |-> km_to_miles_rounded(dist),
                 lat |-> slat.v,
                 lon |-> slon.v,
                 record_url |-> IF Truthy(oid) THEN oid ELSE None])]

SubstationRecords(i) ==
    {[attributes |-> [OBJECTID |-> Num(i), NAME |-> n,
                      LATITUDE |-> Num(p[1]), LONGITUDE |-> Num(p[2])],
      geometry |-> [x |-> Num(p[2]), y |-> Num(p[1])]] :
        n \in {Str(<<"A">>), None, Absent},
        p \in {<<6001, -15000>>, <<6000, -14999>>, <<6001, -14999>>}}
    \cup
    {[attributes |-> [OBJECTID |-> Num(i), NAME |-> Str(<<"A">>),
                      LATITUDE |-> Absent, LONGITUDE |-> Absent],
      geometry |-> g] :
        g \in {[x |-> Num(-14998), y |-> Num(6000)], Absent}}
    \cup
    {[attributes |-> [OBJECTID |-> Num(i), NAME |-> Str(<<"A">>),
                      LATITUDE |-> a[1], LONGITUDE |-> a[2]],
      geometry |-> [x |-> Num(-14998), y |-> Num(6000)]] :
        a \in {<<Num(6001), None>>, <<Num(0), Num(-14999)>>}}
    \cup
    {[attributes |-> Absent, geometry |-> [x |-> Num(-14998), y |-> Num(6000)]]}

QuerySubstationsFetch ==
    /\ fn = "query_substations" /\ pc = "fetch"
    /\ \E outcome \in {"ok", "nokey", "error", "raise"} :
        /\ data' = outcome
        /\ CASE outcome \in {"ok", "nokey"} /\ ~GetFeatures(outcome).raised ->
                /\ pc' = "loop"
                /\ UNCHANGED <<ret, warned>>
             [] outcome = "error" ->
                /\ pc' = "done"
                /\ ret' = <<>>
                /\ UNCHANGED warned
             [] OTHER ->
                /\ pc' = "done"
                /\ ret' = <<>>
                /\ warned' = TRUE
    /\ results' = <<>>
    /\ UNCHANGED <<fn, lat, lon, radius_km, operators, min_voltage_kv,
                   shapely, features, seen, resolved>>
    /\ UNCHANGED mvars
    /\ UNCHANGED xvars

QuerySubstationsFeature ==
    /\ fn = "query_substations" /\ pc = "loop"
    /\ data = "ok"
    /\ Len(features) < MaxBatch
    /\ \E feat \in SubstationRecords(Len(features) + 1) :
        LET st == SubstationsBody(
                    [raised |-> FALSE, results |-> results, seen |-> seen,
                     resolved |-> resolved],
                    feat, lat, lon)
        IN  /\ features' = Append(features, feat)
            /\ results' = st.results
            /\ IF st.raised
               THEN pc' = "done" /\ ret' = <<>> /\ warned' = TRUE
               ELSE UNCHANGED <<pc, ret, warned>>
    /\ UNCHANGED <<fn, data, lat, lon, radius_km, operators, min_voltage_kv,
                   shapely, seen, resolved>>
    /\ UNCHANGED mvars
    /\ UNCHANGED xvars

QuerySubstationsReturn ==
    /\ fn = "query_substations" /\ pc = "loop"
    /\ pc' = "done"
    /\ results' = SortByDistance(results)
    /\ ret' = results'
    /\ UNCHANGED <<fn, data, lat, lon, radius_km, operators, min_voltage_kv,
                   shapely, features, seen, resolved, warned>>
    /\ UNCHANGED mvars
    /\ UNCHANGED xvars

(***************************************************************************)
(* scout/infra.py: query_city_limits_distance                              *)
(***************************************************************************)
\* s.replace("+", "")
RECURSIVE RemovePlus(_)
RemovePlus(s) ==
    IF Len(s) = 0 THEN s
    ELSE IF s[1] = "+" THEN RemovePlus(Tail(s))
    ELSE <<s[1]>> \o RemovePlus(Tail(s))

\* float(s) of a decimal numeral with at most two decimals, in hundredths:
\* [ok, v]; ok is FALSE where float raises ValueError (as on "None")
ParseFloat(s) ==
    LET neg == Len(s) > 0 /\ s[1] = "-"
        body == IF Len(s) > 0 /\ s[1] \in {"-", "+"} THEN Tail(s) ELSE s
        dots == {i \in 1..Len(body) : body[i] = "."}
        d == IF dots = {} THEN Len(body) + 1
             ELSE CHOOSE i \in dots : \A j \in dots : i <= j
        ip == SubSeq(body, 1, d - 1)
        fp == SubSeq(body, d + 1, Len(body))
        frac == IF Len(fp) = 1 THEN 10 * DigitsValue(fp, 0) ELSE DigitsValue(fp, 0)
    IN  IF /\ Len(ip) + Len(fp) > 0
           /\ Len(fp) <= 2
           /\ \A i \in 1..Len(ip) : IsDigit(ip[i])
           /\ \A i \in 1..Len(fp) : IsDigit(fp[i])
        THEN [ok |-> TRUE,
              v |-> IF neg THEN -(100 * DigitsValue(ip, 0) + frac)
                    ELSE 100 * DigitsValue(ip, 0) + frac]
        ELSE [ok |-> FALSE, v |-> 0]

\* float(str(attrs.get("CENTLAT", "0")).replace("+", ""))
ParseCentroid(value) ==
    ParseFloat(RemovePlus(ToStr(Get(value, Str(<<"0">>)))))

\* Polygon(shell, holes) raises on a ring of fewer than three vertices and
\* on a vertex of fewer than two numbers
PolygonRaises(rings) ==
    \E k \in 1..Len(rings) :
        \/ Len(rings[k]) < 3
        \/ \E i \in 1..Len(rings[k]) : Len(rings[k][i]) < 2

\* q lies on the ring (a closed sequence of vertices <<lon, lat>>)
OnRing(ring, q) ==
    \E i \in 1..(Len(ring) - 1) :
        LET a == ring[i]
            b == ring[i + 1]
        IN  /\ (b[1] - a[1]) * (q[2] - a[2]) = (b[2] - a[2]) * (q[1] - a[1])
            /\ (q[1] - a[1]) * (q[1] - b[1]) <= 0
            /\ (q[2] - a[2]) * (q[2] - b[2]) <= 0

\* the edges of the ring that a ray from q towards the east crosses
Crossings(ring, q) ==
    {i \in 1..(Len(ring) - 1) :
        LET a == ring[i]
            b == ring[i + 1]
            dy == b[2] - a[2]
        IN  /\ (a[2] > q[2]) # (b[2] > q[2])
            /\ IF dy > 0
               THEN (q[1] - a[1]) * dy < (q[2] - a[2]) * (b[1] - a[1])
               ELSE (q[1] - a[1]) * dy > (q[2] - a[2]) * (b[1] - a[1])}

\* q lies in the open region that the ring encloses
InsideRing(ring, q) ==
    ~OnRing(ring, q) /\ Cardinality(Crossings(ring, q)) % 2 = 1

\* Polygon(rings[0], rings[1:]).contains(Point(q)): q is in the interior of
\* the polygon, that is inside the shell, on no ring, and inside no hole
contains(rings, q) ==
    /\ InsideRing(rings[1], q)
    /\ \A k \in 2..Len(rings) :
          ~InsideRing(rings[k], q) /\ ~OnRing(rings[k], q)

\* results.sort(key=lambda x: x["distance_to_boundary_km"]), a stable sort
InsertByBoundary(sorted, f) ==
    LET n == Cardinality({i \in 1..Len(sorted) :
                             sorted[i].distance_to_boundary_km
                                 <= f.distance_to_boundary_km})
    IN  SubSeq(sorted, 1, n) \o <<f>> \o SubSeq(sorted, n + 1, Len(sorted))

RECURSIVE SortBoundaryFrom(_, _, _)
SortBoundaryFrom(list, i, sorted) ==
    IF i > Len(list) THEN sorted
    ELSE SortBoundaryFrom(list, i + 1, InsertByBoundary(sorted, list[i]))

SortByBoundary(list) == SortBoundaryFrom(list, 1, <<>>)

\* poly.exterior
exterior(rings) == rings[1]

\* The body of `for feat in data.get("features", [])` on the locals
\* st = [raised, results, seen, resolved]; the inner try skips the record
\* on any exception (the fields google_maps_link and data_source, a link
\* made of the nearest point and a constant, are left out)
CityBody(st, feat, plat, plon) ==
    IF feat.attributes = Absent THEN [st EXCEPT !.raised = TRUE]
    ELSE
    LET attrs == feat.attributes
        rings == Get(feat.geometry, [rings |-> <<>>]).rings
    IN  IF Len(rings) = 0 THEN st
        ELSE IF PolygonRaises(rings) THEN st
        ELSE
        LET q == <<plon, plat>>
            inside == contains(rings, q)
            np_on_edge == nearest_points(q, exterior(rings))
            edge_dist == haversine_distance(plat, plon, np_on_edge[2], np_on_edge[1])
            centlat == ParseCentroid(attrs.CENTLAT)
            centlon == ParseCentroid(attrs.CENTLON)
        IN  IF ~centlat.ok \/ ~centlon.ok THEN st
            ELSE [st EXCEPT !.results = Append(@,
                    [name |-> Get(attrs.NAME, Unknown),
                     type |-> Get(attrs.LSADC, Str(<<>>)),
                     inside |-> inside,
                     distance_to_boundary_km |-> Round1(edge_dist),
                     distance_to_boundary_mi |-> km_to_miles_rounded(edge_dist),
                     distance_to_center_km |->
                         Round1(haversine_distance(plat, plon, centlat.v, centlon.v)),
                     nearest_boundary_lat |-> np_on_edge[2],
                     nearest_boundary_lon |-> np_on_edge[1]])]

\* a closed clockwise rectangle on the grid, from its south-west corner
\* (x0, y0) to its north-east corner (x1, y1)
Rect(x0, y0, x1, y1) ==
    <<V(x0, y0), V(x0, y1), V(x1, y1), V(x1, y0), V(x0, y0)>>

\* the query point of the city queries, 60.02 N 149.97 W
CityLat == 6002
CityLon == -14997

\* polygons around and beside the query point; no two edges of the shell
\* are equally near to it in the plane of degrees
PolyWide == [rings |-> <<Rect(0, 0, 6, 5)>>]       \* inside, south edge 2.2 km
PolyNear == [rings |-> <<Rect(2, 0, 5, 5)>>]       \* inside, west edge 0.6 km
PolyBeside == [rings |-> <<Rect(4, 0, 6, 5)>>]     \* outside, 0.6 km east
PolyTouch == [rings |-> <<Rect(3, -1, 6, 5)>>]     \* on the west edge
PolyInHole == [rings |-> <<Rect(1, -1, 6, 5), Rect(2, 1, 4, 3)>>]
PolyByHole == [rings |-> <<Rect(1, -1, 6, 5), Rect(4, 1, 5, 3)>>]
PolySliver == [rings |-> << <<V(0, 0), V(4, 4)>> >>]  \* Polygon raises
PolyNoRings == [rings |-> <<>>]

\* the place names of a response: the i-th record is place i
PlaceNames == <<Str(<<"A">>), Str(<<"B">>), Str(<<"C">>), Str(<<"D">>)>>

Centroid == [lat |-> Str(<<"+", "6", "0", ".", "0", "2">>),
             lon |-> Str(<<"-", "1", "4", "9", ".", "9", "7">>)]

CityRecords(i) ==
    {[attributes |-> [NAME |-> PlaceNames[i], LSADC |-> Str(<<"2", "5">>),
                      CENTLAT |-> Centroid.lat, CENTLON |-> Centroid.lon],
      geometry |-> g] :
        g \in {PolyWide, PolyNear, PolyBeside, PolyTouch, PolyInHole,
               PolyByHole, PolySliver, PolyNoRings, Absent}}
    \cup
    {[attributes |-> [NAME |-> PlaceNames[i], LSADC |-> Absent,
                      CENTLAT |-> None, CENTLON |-> Centroid.lon],
      geometry |-> PolyNear]}
    \cup
    {[attributes |-> Absent, geometry |-> PolyNear]}

\* lines 507-508 and 527-535: the two imports, outside the try, then the
\* request; an ImportError leaves the function
QueryCityFetch ==
    /\ fn = "query_city_limits_distance" /\ pc = "fetch"
    /\ IF ~shapely
       THEN /\ pc' = "raised"
            /\ UNCHANGED <<data, ret, warned>>
       ELSE \E outcome \in {"ok", "nokey", "error", "raise"} :
            /\ data' = outcome
            /\ CASE outcome \in {"ok", "nokey"} /\ ~GetFeatures(outcome).raised ->
                    /\ pc' = "loop"
                    /\ UNCHANGED <<ret, warned>>
                 [] outcome = "error" ->
                    /\ pc' = "done"
                    /\ ret' = <<>>
                    /\ UNCHANGED warned
                 [] OTHER ->
                    /\ pc' = "done"
                    /\ ret' = <<>>
                    /\ warned' = TRUE
    /\ results' = <<>>
    /\ UNCHANGED <<fn, lat, lon, radius_km, operators, min_voltage_kv,
                   shapely, features, seen, resolved>>
    /\ UNCHANGED mvars
    /\ UNCHANGED xvars

QueryCityFeature ==
    /\ fn = "query_city_limits_distance" /\ pc = "loop"
    /\ data = "ok"
    /\ Len(features) < MaxBatch
    /\ \E feat \in CityRecords(Len(features) + 1) :
        LET st == CityBody(
                    [raised |-> FALSE, results |-> results, seen |-> seen,
                     resolved |-> resolved],
                    feat, lat, lon)
        IN  /\ features' = Append(features, feat)
            /\ results' = st.results
            /\ IF st.raised
               THEN pc' = "done" /\ ret' = <<>> /\ warned' = TRUE
               ELSE UNCHANGED <<pc, ret, warned>>
    /\ UNCHANGED <<fn, data, lat, lon, radius_km, operators, min_voltage_kv,
                   shapely, seen, resolved>>
    /\ UNCHANGED mvars
    /\ UNCHANGED xvars

QueryCityReturn ==
    /\ fn = "query_city_limits_distance" /\ pc = "loop"
    /\ pc' = "done"
    /\ results' = SortByBoundary(results)
    /\ ret' = results'
    /\ UNCHANGED <<fn, data, lat, lon, radius_km, operators, min_voltage_kv,
                   shapely, features, seen, resolved, warned>>
    /\ UNCHANGED mvars
    /\ UNCHANGED xvars

CityInit ==
    /\ fn = "query_city_limits_distance"
    /\ lat = CityLat
    /\ lon = CityLon
    /\ radius_km = 50
    /\ operators = <<>>
    /\ min_voltage_kv = 0
    /\ shapely \in BOOLEAN
    /\ pc = "fetch"
    /\ data = "none"
    /\ features = <<>>
    /\ results = <<>>
    /\ seen = {}
    /\ resolved = <<>>
    /\ ret = <<>>
    /\ warned = FALSE
    /\ args = None
    /\ mpc = "none"
    /\ config = None
    /\ calls = <<>>
    /\ bundle = None
    /\ exit_code = None
    /\ printed = None
    /\ fs = NoCache
    /\ reg = RegIdle
    /\ threads = <<>>

CityNext ==
    \/ QueryCityFetch
    \/ QueryCityFeature
    \/ QueryCityReturn

SpecCity == CityInit /\ [][CityNext]_vars

(***************************************************************************)
(* The queries as entry points                                             *)
(***************************************************************************)
Init ==
    /\ fn \in {"query_pipelines", "query_transmission_lines",
               "query_substations"}
    /\ lat \in QueryLats
    /\ lon \in QueryLons
    /\ radius_km = 50
    /\ operators \in IF fn = "query_pipelines" THEN WatchLists ELSE {<<>>}
    /\ min_voltage_kv = 69
    /\ shapely \in IF fn = "query_substations" THEN {TRUE} ELSE BOOLEAN
    /\ pc = "fetch"
    /\ data = "none"
    /\ features = <<>>
    /\ results = <<>>
    /\ seen = {}
    /\ resolved = <<>>
    /\ ret = <<>>
    /\ warned = FALSE
    /\ args = None
    /\ mpc = "none"
    /\ config = None
    /\ calls = <<>>
    /\ bundle = None
    /\ exit_code = None
    /\ printed = None
    /\ fs = NoCache
    /\ reg = RegIdle
    /\ threads = <<>>

Next ==
    \/ QueryPipelinesFetch
    \/ QueryPipelinesFeature
    \/ QueryPipelinesReturn
    \/ QueryTransmissionFetch
    \/ QueryTransmissionFeature
    \/ QueryTransmissionReturn
    \/ QuerySubstationsFetch
    \/ QuerySubstationsFeature
    \/ QuerySubstationsReturn

Spec == Init /\ [][Next]_vars

(***************************************************************************)
(* The query functions on a whole response, as main() calls them           *)
(***************************************************************************)
\* what the upstream service answers: the request raises, the payload has
\* an "error" entry, or it holds a batch of raw records
FetchFailed == [kind |-> "raise", features |-> <<>>]
FetchError == [kind |-> "error", features |-> <<>>]
FetchNoKey == [kind |-> "nokey", features |-> <<>>]
FetchOk(batch) == [kind |-> "ok", features |-> batch]

Locals0 == [raised |-> FALSE, results |-> <<>>, seen |-> {}, resolved |-> <<>>]

RECURSIVE PipelinesLoop(_, _, _, _, _, _, _)
PipelinesLoop(st, batch, i, plat, plon, ops, installed) ==
    IF i > Len(batch) \/ st.raised THEN st
    ELSE PipelinesLoop(PipelinesBody(st, batch[i], plat, plon, ops, installed),
                       batch, i + 1, plat, plon, ops, installed)

query_pipelines(response, plat, plon, ops, installed) ==
    IF response.kind \notin {"ok", "nokey"} \/ GetFeatures(response.kind).raised
    THEN <<>>
    ELSE LET st == PipelinesLoop(Locals0, response.features, 1,
                                 plat, plon, ops, installed)
         IN  IF st.raised THEN <<>> ELSE SortByDistance(st.results)

RECURSIVE TransmissionLoop(_, _, _, _, _, _, _)
TransmissionLoop(st, batch, i, plat, plon, min_kv, installed) ==
    IF i > Len(batch) \/ st.raised THEN st
    ELSE TransmissionLoop(
             TransmissionBody(st, batch[i], plat, plon, min_kv, installed),
             batch, i + 1, plat, plon, min_kv, installed)

query_transmission_lines(response, plat, plon, min_kv, installed) ==
    IF response.kind \notin {"ok", "nokey"} \/ GetFeatures(response.kind).raised
    THEN <<>>
    ELSE LET st == TransmissionLoop(Locals0, response.features, 1,
                                    plat, plon, min_kv, installed)
         IN  IF st.raised THEN <<>> ELSE SortByDistance(st.results)

RECURSIVE SubstationsLoop(_, _, _, _, _)
SubstationsLoop(st, batch, i, plat, plon) ==
    IF i > Len(batch) \/ st.raised THEN st
    ELSE SubstationsLoop(SubstationsBody(st, batch[i], plat, plon),
                         batch, i + 1, plat, plon)

query_substations(response, plat, plon) ==
    IF response.kind \notin {"ok", "nokey"} \/ GetFeatures(response.kind).raised
    THEN <<>>
    ELSE LET st == SubstationsLoop(Locals0, response.features, 1, plat, plon)
         IN  IF st.raised THEN <<>> ELSE SortByDistance(st.results)

RECURSIVE CityLoop(_, _, _, _, _)
CityLoop(st, batch, i, plat, plon) ==
    IF i > Len(batch) \/ st.raised THEN st
    ELSE CityLoop(CityBody(st, batch[i], plat, plon), batch, i + 1, plat, plon)

\* query_city_limits_distance once its two imports have succeeded
query_city_limits_distance(response, plat, plon) ==
    IF response.kind \notin {"ok", "nokey"} \/ GetFeatures(response.kind).raised
    THEN <<>>
    ELSE LET st == CityLoop(Locals0, response.features, 1, plat, plon)
         IN  IF st.raised THEN <<>> ELSE SortByBoundary(st.results)

(***************************************************************************)
(* scout/formatter.py                                                      *)
(***************************************************************************)
\* the most entries format_markdown lists of each category
PipelinesShown == 15
TransmissionShown == 10
SubstationsShown == 15
NearbyShown == 8

Min(a, b) == IF a <= b THEN a ELSE b

\* the last n elements in place of the first n
Slice_Last(list, n) ==
    SubSeq(list, Len(list) - Min(n, Len(list)) + 1, Len(list))

\* list[:n]
Slice(list, n) == SubSeq(list, 1, Min(n, Len(list)))

\* for i, p in enumerate(list, 1): one numbered entry per element
Enumerate(list) == [i \in 1..Len(list) |-> [rank |-> i, item |-> list[i]]]

\* format_markdown(results): the entries of the report, section by section
format_markdown(rs) ==
    [format |-> "markdown",
     pipelines |-> Enumerate(Slice(rs.pipelines, PipelinesShown)),
     transmission_lines |->
         Enumerate(Slice(rs.transmission_lines, TransmissionShown)),
     substations |-> Enumerate(Slice(rs.substations, SubstationsShown)),
     fiber |-> rs.fiber,
     city_limits |-> rs.city_limits,
     nearby_cities |-> Enumerate(Slice(rs.nearby_cities, NearbyShown)),
     attainment |-> rs.attainment]

\* format_json(results): the dict `clean`
format_json(rs) ==
    [format |-> "json",
     pipelines |-> [count |-> Len(rs.pipelines),
                    features |-> rs.pipelines],
     transmission_lines |-> [count |-> Len(rs.transmission_lines),
                             features |-> rs.transmission_lines],
     fiber |-> rs.fiber,
     city_limits |-> rs.city_limits,
     epa_attainment |-> rs.attainment]

(***************************************************************************)
(* scout/regulatory.py                                                     *)
(***************************************************************************)
\* the most calls of check_attainment in one run
MaxCalls == 3

\* what get_county_fips returns: None when the lookup failed or found no
\* county, else state and county code; 48201 is Harris County, 48453
\* Travis County
HarrisFips == Str(<<"4", "8", "2", "0", "1">>)
TravisFips == Str(<<"4", "8", "4", "5", "3">>)

get_county_fips == {None, HarrisFips, TravisFips}

\* city_info.get('county', 'Unknown County') on what check_city_limits
\* returns: the dict always has the key, with None when nothing was found
CountyNames == {None, Str(<<"H", "a", "r", "r", "i", "s">>)}

Ozone == <<"O", "z", "o", "n", "e">>

\* the built-in table: six Texas counties, each with ["Ozone"]
texas_nonattainment ==
    [k \in {<<"4", "8", "2", "0", "1">>, <<"4", "8", "1", "1", "3">>,
            <<"4", "8", "4", "3", "9">>, <<"4", "8", "0", "8", "5">>,
            <<"4", "8", "1", "2", "1">>, <<"4", "8", "1", "4", "1">>} |->
        <<Ozone>>]

\* contents of cache/epa_nonattainment.json: a JSON object (json.dump and
\* json.load of a dict of string keys and string lists give the dict back),
\* a JSON array, or text that json.load rejects
JsonDict(d) == [t |-> "dict", v |-> d]
JsonList == [t |-> "list"]
Corrupt == [t |-> "corrupt"]

\* a table that somebody put in the cache: Travis County with ["Lead"]
CachedTable == [k \in {<<"4", "8", "4", "5", "3">>} |-> << <<"L", "e", "a", "d">> >>]

CacheFiles == {JsonDict(texas_nonattainment), JsonDict(CachedTable), JsonList, Corrupt}

\* the file systems a run can start on
FileSystems ==
    {NoCache, [dir |-> TRUE, file |-> Absent]}
    \cup {[dir |-> TRUE, file |-> f] : f \in CacheFiles}

\* load_epa_nonattainment_data(): [raised, fs, data]
load_epa_nonattainment_data(fsv) ==
    LET e == ensure_cache_dir(fsv)
        fs1 == e.fs
    IN  IF e.raised THEN [raised |-> TRUE, fs |-> fs1, data |-> None]
        ELSE IF fs1.file # Absent /\ fs1.file # Corrupt
        THEN [raised |-> FALSE, fs |-> fs1, data |-> fs1.file]
        ELSE [raised |-> FALSE,
              fs |-> [fs1 EXCEPT !.file = JsonDict(texas_nonattainment)],
              data |-> JsonDict(texas_nonattainment)]

UnknownCounty ==
    Str(<<"U", "n", "k", "n", "o", "w", "n", " ", "C", "o", "u", "n", "t", "y">>)
UnknownCountyTX == Str(UnknownCounty.v \o <<",", " ", "T", "X">>)

\* lines 178-184: the county could not be determined
AttainmentNoCounty ==
    [attainment |-> TRUE, county |-> UnknownCounty,
     pollutants_nonattainment |-> <<>>, county_fips |-> Absent,
     error |-> Str(<<"n", "o", " ", "c", "o", "u", "n", "t", "y">>)]

\* lines 203-210: an exception was caught
AttainmentFailed ==
    [attainment |-> TRUE, county |-> UnknownCountyTX,
     pollutants_nonattainment |-> <<>>, county_fips |-> Absent,
     error |-> Str(<<"e", "x", "c", "e", "p", "t", "i", "o", "n">>)]

\* `attainment` set without looking at the pollutants
AttainmentOf_Always(ld, county_fips, county_name) ==
    IF ld.raised \/ ld.data.t # "dict" THEN AttainmentFailed
    ELSE [attainment |-> TRUE,
          county |-> UnknownCountyTX,
          pollutants_nonattainment |->
              IF county_fips.v \in DOMAIN ld.data.v
              THEN ld.data.v[county_fips.v] ELSE <<>>,
          county_fips |-> county_fips,
          error |-> Absent]

\* lines 194-201 on the loaded data; nonattainment_data.get raises on a
\* value that is no dict
AttainmentOf(ld, county_fips, county_name) ==
    IF ld.raised \/ ld.data.t # "dict" THEN AttainmentFailed
    ELSE LET pollutants == IF county_fips.v \in DOMAIN ld.data.v
                           THEN ld.data.v[county_fips.v] ELSE <<>>
         IN  [attainment |-> Len(pollutants) = 0,
              county |-> IF Truthy(county_name)
                         THEN Str(county_name.v \o <<",", " ", "T", "X">>)
                         ELSE UnknownCountyTX,
              pollutants_nonattainment |-> pollutants,
              county_fips |-> county_fips,
              error |-> Absent]

\* check_attainment as main() calls it, on a file system and on what the
\* two geocoder lookups gave: [fs, result]
check_attainment(fsv, county_fips, county_name) ==
    IF ~Truthy(county_fips) THEN [fs |-> fsv, result |-> AttainmentNoCounty]
    ELSE LET ld == load_epa_nonattainment_data(fsv)
         IN  [fs |-> ld.fs, result |-> AttainmentOf(ld, county_fips, county_name)]

\* lines 174-184: a call begins with get_county_fips
CheckAttainmentLookup ==
    /\ reg.pc = "idle"
    /\ reg.calls < MaxCalls
    /\ \E f \in get_county_fips :
        reg' = IF ~Truthy(f)
               THEN [reg EXCEPT !.county_fips = f, !.result = AttainmentNoCounty,
                                !.calls = @ + 1]
               ELSE [reg EXCEPT !.county_fips = f, !.result = None,
                                !.pc = "city_info"]
    /\ UNCHANGED <<fs, threads>>
    /\ UNCHANGED <<qvars, mvars>>

\* lines 187-188
CheckAttainmentCityInfo ==
    /\ reg.pc = "city_info"
    /\ \E c \in CountyNames :
        reg' = [reg EXCEPT !.county_name = c, !.pc = "load"]
    /\ UNCHANGED <<fs, threads>>
    /\ UNCHANGED <<qvars, mvars>>

\* line 191: load_epa_nonattainment_data()
LoadEpaNonattainmentData ==
    /\ reg.pc = "load"
    /\ LET ld == load_epa_nonattainment_data(fs)
       IN  /\ fs' = ld.fs
           /\ reg' = [reg EXCEPT !.nonattainment_data = ld.data, !.pc = "lookup"]
    /\ UNCHANGED threads
    /\ UNCHANGED <<qvars, mvars>>

\* lines 194-210
CheckAttainmentReturn ==
    /\ reg.pc = "lookup"
    /\ reg' = [reg EXCEPT
                 !.result = AttainmentOf(
                                [raised |-> FALSE, data |-> reg.nonattainment_data],
                                reg.county_fips, reg.county_name),
                 !.pc = "idle",
                 !.calls = @ + 1]
    /\ UNCHANGED <<fs, threads>>
    /\ UNCHANGED <<qvars, mvars>>

(***************************************************************************)
(* main.py                                                                 *)
(***************************************************************************)
\* a float that is not a number (argparse's type=float accepts "nan"); v is
\* a filler, no comparison reads it
NaN == [t |-> "nan", v |-> 0]

\* lo <= x <= hi on floats: every comparison with NaN is false
Between(lo, x, hi) == x.t = "num" /\ lo <= x.v /\ x.v <= hi

\* the check with `and` for `or`
InvalidCoordinates_Both(a) ==
    ~Between(-9000, a.lat, 9000) /\ ~Between(-18000, a.lon, 18000)

\* `not (-90 <= args.lat <= 90) or not (-180 <= args.lon <= 180)`
InvalidCoordinates(a) ==
    ~Between(-9000, a.lat, 9000) \/ ~Between(-18000, a.lon, 18000)

\* load_config(): the built-in dict when config.yaml is missing, else the
\* file's content
BuiltinConfig ==
    [default_radius_km |-> Num(50),
     operators |-> << <<"K", "M">> >>,
     min_voltage_kv |-> 69]

Configs ==
    {BuiltinConfig,
     [default_radius_km |-> Num(25), operators |-> <<>>, min_voltage_kv |-> 138]}

\* args.radius or config.get("default_radius_km", 50)
RadiusKm(a, cfg) == IF Truthy(a.radius) THEN a.radius ELSE cfg.default_radius_km

\* the command lines: coordinates on the grid, out of range, and NaN;
\* --radius absent, zero, negative and positive
ArgLats == {Num(6000), Num(9000), Num(-9000), Num(9001), Num(-9001), NaN}
ArgLons == {Num(-15000), Num(18001), Num(-18001), NaN}
ArgRadii == {None, Num(0), Num(-5), Num(25)}

\* the responses the services give main's queries: records only around a
\* query point of the grid
NearGrid(a) == a.lat = Num(6000) /\ a.lon = Num(-15000)

MainPipelineResponses(a) ==
    {FetchFailed, FetchError, FetchNoKey, FetchOk(<<>>)}
    \cup {FetchOk(<<r>>) : r \in {x \in PipelineRecords(1) :
                                     /\ NearGrid(a)
                                     /\ x.geometry \in {GeomEast, GeomShortVertex}}}

MainTransmissionResponses(a) ==
    {FetchFailed, FetchNoKey, FetchOk(<<>>)}
    \cup {FetchOk(<<r>>) : r \in {x \in TransmissionRecords(1) :
                                     /\ NearGrid(a)
                                     /\ x.geometry = GeomEast
                                     /\ x.attributes # Absent}}

MainSubstationResponses(a) ==
    {FetchFailed, FetchNoKey, FetchOk(<<>>)}
    \cup {FetchOk(<<r>>) : r \in {x \in SubstationRecords(1) :
                                     /\ NearGrid(a)
                                     /\ x.geometry = Absent}}

MainCityResponses(a) ==
    {FetchFailed, FetchOk(<<>>)}
    \cup {FetchOk(<<r>>) : r \in {x \in CityRecords(1) :
                                     /\ NearGrid(a)
                                     /\ x.geometry = PolyNear
                                     /\ x.attributes # Absent}}

EmptyBundle ==
    [pipelines |-> <<>>, transmission_lines |-> <<>>, substations |-> <<>>,
     fiber |-> None, city_limits |-> None, nearby_cities |-> <<>>,
     attainment |-> None]

Call(name, r) ==
    [fn |-> name, lat |-> args.lat, lon |-> args.lon, radius_km |-> r]

\* lines 48-52: parse_args, then the coordinate check
MainValidate ==
    /\ mpc = "parsed"
    /\ IF InvalidCoordinates(args)
       THEN mpc' = "exited" /\ exit_code' = Num(1)
       ELSE mpc' = "config" /\ UNCHANGED exit_code
    /\ UNCHANGED <<args, config, calls, bundle, printed>>
    /\ UNCHANGED qvars
    /\ UNCHANGED xvars

\* lines 54-73: load_config and the empty result bundle
MainLoadConfig ==
    /\ mpc = "config"
    /\ \E cfg \in Configs : config' = cfg
    /\ bundle' = EmptyBundle
    /\ mpc' = "pipelines"
    /\ UNCHANGED <<args, calls, exit_code, printed>>
    /\ UNCHANGED qvars
    /\ UNCHANGED xvars

\* lines 76-80
MainQueryPipelines ==
    /\ mpc = "pipelines"
    /\ \E response \in MainPipelineResponses(args) :
        bundle' = [bundle EXCEPT !.pipelines =
                      query_pipelines(response, args.lat.v, args.lon.v,
                                      config.operators, shapely)]
    /\ calls' = Append(calls, Call("query_pipelines", RadiusKm(args, config)))
    /\ mpc' = "transmission"
    /\ UNCHANGED <<args, config, exit_code, printed>>
    /\ UNCHANGED qvars
    /\ fs' = ensure_cache_dir(fs).fs
    /\ UNCHANGED <<reg, threads>>

\* lines 82-86 and 103-105: an exception that leaves the query reaches
\* main's except
MainQueryTransmission ==
    /\ mpc = "transmission"
    /\ calls' = Append(calls,
                       Call("query_transmission_lines", RadiusKm(args, config)))
    /\ IF MercatorRaises(args.lat.v)
       THEN /\ mpc' = "exited"
            /\ exit_code' = Num(1)
            /\ UNCHANGED bundle
       ELSE /\ \E response \in MainTransmissionResponses(args) :
                bundle' = [bundle EXCEPT !.transmission_lines =
                              query_transmission_lines(response, args.lat.v,
                                  args.lon.v, config.min_voltage_kv, shapely)]
            /\ mpc' = "substations"
            /\ UNCHANGED exit_code
    /\ UNCHANGED <<args, config, printed>>
    /\ UNCHANGED qvars
    /\ fs' = ensure_cache_dir(fs).fs
    /\ UNCHANGED <<reg, threads>>

\* lines 88-89
MainQuerySubstations ==
    /\ mpc = "substations"
    /\ \E response \in MainSubstationResponses(args) :
        bundle' = [bundle EXCEPT !.substations =
                      query_substations(response, args.lat.v, args.lon.v)]
    /\ calls' = Append(calls, Call("query_substations", RadiusKm(args, config)))
    /\ mpc' = "fiber"
    /\ UNCHANGED <<args, config, exit_code, printed>>
    /\ UNCHANGED qvars
    /\ UNCHANGED xvars

\* lines 91-92: query_fiber catches what its requests raise
MainQueryFiber ==
    /\ mpc = "fiber"
    /\ \E r \in {Str(<<"f", "i", "b", "e", "r">>), Str(<<"b", "l", "o", "c", "k", "_", "e", "r", "r", "o", "r">>)} :
        bundle' = [bundle EXCEPT !.fiber = r]
    /\ calls' = Append(calls, Call("query_fiber", None))
    /\ mpc' = "city_limits"
    /\ UNCHANGED <<args, config, exit_code, printed>>
    /\ UNCHANGED qvars
    /\ UNCHANGED xvars

\* lines 94-95: check_city_limits catches what its request raises
MainCheckCityLimits ==
    /\ mpc = "city_limits"
    /\ \E r \in {Str(<<"c", "i", "t", "y">>), Str(<<"e", "r", "r", "o", "r">>)} :
        bundle' = [bundle EXCEPT !.city_limits = r]
    /\ calls' = Append(calls, Call("check_city_limits", None))
    /\ mpc' = "nearby_cities"
    /\ UNCHANGED <<args, config, exit_code, printed>>
    /\ UNCHANGED qvars
    /\ UNCHANGED xvars

\* lines 97-98 and 103-105: query_city_limits_distance imports shapely
\* outside its try, so the ImportError reaches main's except
MainQueryNearbyCities ==
    /\ mpc = "nearby_cities"
    /\ calls' = Append(calls,
                       Call("query_city_limits_distance", RadiusKm(args, config)))
    /\ IF shapely
       THEN /\ \E response \in MainCityResponses(args) :
                bundle' = [bundle EXCEPT !.nearby_cities =
                              query_city_limits_distance(response, args.lat.v,
                                                         args.lon.v)]
            /\ mpc' = "attainment"
            /\ UNCHANGED exit_code
       ELSE /\ mpc' = "exited"
            /\ exit_code' = Num(1)
            /\ UNCHANGED bundle
    /\ UNCHANGED <<args, config, printed>>
    /\ UNCHANGED qvars
    /\ UNCHANGED xvars

\* lines 100-101: check_attainment catches every exception
MainCheckAttainment ==
    /\ mpc = "attainment"
    /\ \E f \in get_county_fips, c \in CountyNames :
        LET r == check_attainment(fs, f, c)
        IN  /\ bundle' = [bundle EXCEPT !.attainment = r.result]
            /\ fs' = r.fs
    /\ calls' = Append(calls, Call("check_attainment", None))
    /\ mpc' = "render"
    /\ UNCHANGED <<args, config, exit_code, printed>>
    /\ UNCHANGED qvars
    /\ UNCHANGED <<reg, threads>>

\* lines 107-110
MainRender ==
    /\ mpc = "render"
    /\ printed' = IF args.format = "json" THEN format_json(bundle)
                  ELSE format_markdown(bundle)
    /\ mpc' = "exited"
    /\ exit_code' = Num(0)
    /\ UNCHANGED <<args, config, calls, bundle>>
    /\ UNCHANGED qvars
    /\ UNCHANGED xvars

MainInit ==
    /\ args \in [lat : ArgLats, lon : ArgLons, radius : ArgRadii,
                 format : {"markdown", "json"}]
    /\ mpc = "parsed"
    /\ config = None
    /\ calls = <<>>
    /\ bundle = None
    /\ exit_code = None
    /\ printed = None
    /\ shapely \in BOOLEAN
    /\ fn = "main"
    /\ lat = 0
    /\ lon = 0
    /\ radius_km = 0
    /\ operators = <<>>
    /\ min_voltage_kv = 0
    /\ pc = "none"
    /\ data = "none"
    /\ features = <<>>
    /\ results = <<>>
    /\ seen = {}
    /\ resolved = <<>>
    /\ ret = <<>>
    /\ warned = FALSE
    /\ fs = NoCache
    /\ reg = RegIdle
    /\ threads = <<>>

MainNext ==
    \/ MainValidate
    \/ MainLoadConfig
    \/ MainQueryPipelines
    \/ MainQueryTransmission
    \/ MainQuerySubstations
    \/ MainQueryFiber
    \/ MainCheckCityLimits
    \/ MainQueryNearbyCities
    \/ MainCheckAttainment
    \/ MainRender

SpecMain == MainInit /\ [][MainNext]_vars

(***************************************************************************)
(* main() on one category whose service answers with a long batch, the     *)
(* other categories finding nothing                                        *)
(***************************************************************************)
\* the longest batch
MaxListed == 17

\* the i-th record of a long batch of a category: every record is eligible
\* and has a name of its own
LongRecord(name, i) ==
    CASE name = "query_pipelines" ->
            [attributes |-> [FID |-> Num(i), Operator |-> Str(Decimal(i))],
             geometry |-> IF i % 2 = 0 THEN GeomEast ELSE GeomNorth]
      [] name = "query_transmission_lines" ->
            [attributes |-> [OBJECTID_1 |-> Num(i), OWNER |-> Str(Decimal(i)),
                             VOLTAGE |-> Num(138)],
             geometry |-> IF i % 2 = 0 THEN GeomEast ELSE GeomNorth]
      [] name = "query_substations" ->
            [attributes |-> [OBJECTID |-> Num(i), NAME |-> Str(Decimal(i)),
                             LATITUDE |-> Num(6000 + (i % 3)),
                             LONGITUDE |-> Num(-14999)],
             geometry |-> Absent]
      [] OTHER ->
            [attributes |-> [NAME |-> Str(Decimal(i)), LSADC |-> Str(<<"2", "5">>),
                             CENTLAT |-> Centroid.lat, CENTLON |-> Centroid.lon],
             geometry |-> IF i % 2 = 0 THEN PolyNear ELSE PolyWide]

LongBatch(name, n) == [i \in 1..n |-> LongRecord(name, i)]

\* the entry of the bundle that a category's list goes to
BundleKey(name) ==
    CASE name = "query_pipelines" -> "pipelines"
      [] name = "query_transmission_lines" -> "transmission_lines"
      [] name = "query_substations" -> "substations"
      [] OTHER -> "nearby_cities"

\* lines 62-101 with one category's response in `features`
MainAssemble ==
    /\ mpc = "queries"
    /\ LET response == FetchOk(features)
           list ==
             CASE fn = "query_pipelines" ->
                     query_pipelines(response, lat, lon, <<>>, shapely)
               [] fn = "query_transmission_lines" ->
                     query_transmission_lines(response, lat, lon,
                                              min_voltage_kv, shapely)
               [] fn = "query_substations" ->
                     query_substations(response, lat, lon)
               [] OTHER ->
                     query_city_limits_distance(response, lat, lon)
       IN  bundle' = [EmptyBundle EXCEPT ![BundleKey(fn)] = list]
    /\ mpc' = "render"
    /\ UNCHANGED <<args, config, calls, exit_code, printed>>
    /\ UNCHANGED qvars
    /\ UNCHANGED xvars

RenderInit ==
    /\ fn \in {"query_pipelines", "query_transmission_lines",
               "query_substations", "query_city_limits_distance"}
    /\ \E n \in 0..MaxListed : features = LongBatch(fn, n)
    /\ lat = IF fn = "query_city_limits_distance" THEN CityLat ELSE 6000
    /\ lon = IF fn = "query_city_limits_distance" THEN CityLon ELSE -15000
    /\ radius_km = 50
    /\ operators = <<>>
    /\ min_voltage_kv = 69
    /\ shapely = TRUE
    /\ pc = "none"
    /\ data = "none"
    /\ results = <<>>
    /\ seen = {}
    /\ resolved = <<>>
    /\ ret = <<>>
    /\ warned = FALSE
    /\ args \in [lat : {Num(lat)}, lon : {Num(lon)}, radius : {None},
                 format : {"markdown", "json"}]
    /\ mpc = "queries"
    /\ config = BuiltinConfig
    /\ calls = <<>>
    /\ bundle = None
    /\ exit_code = None
    /\ printed = None
    /\ fs = NoCache
    /\ reg = RegIdle
    /\ threads = <<>>

RenderNext ==
    \/ MainAssemble
    \/ MainRender

SpecRender == RenderInit /\ [][RenderNext]_vars

(***************************************************************************)
(* check_attainment called again and again on one file system              *)
(***************************************************************************)
\* no query and no main() is running
QueryIdle ==
    /\ fn = "none" /\ data = "none" /\ lat = 0 /\ lon = 0 /\ radius_km = 0
    /\ operators = <<>> /\ min_voltage_kv = 0 /\ shapely = TRUE
    /\ pc = "none" /\ features = <<>> /\ results = <<>> /\ seen = {}
    /\ resolved = <<>> /\ ret = <<>> /\ warned = FALSE

MainIdle ==
    /\ args = None /\ mpc = "none" /\ config = None /\ calls = <<>>
    /\ bundle = None /\ exit_code = None /\ printed = None

CacheInit ==
    /\ fs \in FileSystems
    /\ reg = RegIdle
    /\ threads = <<>>
    /\ QueryIdle
    /\ MainIdle

CacheNext ==
    \/ CheckAttainmentLookup
    \/ CheckAttainmentCityInfo
    \/ LoadEpaNonattainmentData
    \/ CheckAttainmentReturn

SpecCache == CacheInit /\ [][CacheNext]_vars

(***************************************************************************)
(* Two threads that call the queries at the same time, each on its own     *)
(* response, in one working directory                                      *)
(***************************************************************************)
Threads == {1, 2}

\* the calls a thread can make: the function and the batch of its response
ThreadCalls ==
    {[fn |-> "query_pipelines",
      batch |-> <<[attributes |-> [FID |-> Num(1), Operator |-> Str(<<"K", "M">>)],
                   geometry |-> GeomNorth],
                  [attributes |-> [FID |-> Num(2), Operator |-> Str(<<"K", "M">>)],
                   geometry |-> GeomNorth]>>],
     [fn |-> "query_pipelines",
      batch |-> <<[attributes |-> [FID |-> Num(1), Operator |-> Str(<<"a", "b">>)],
                   geometry |-> GeomEast]>>],
     [fn |-> "query_transmission_lines",
      batch |-> <<[attributes |-> [OBJECTID_1 |-> Num(1), OWNER |-> Str(<<"K", "M">>),
                                   VOLTAGE |-> Num(138)],
                   geometry |-> GeomNorth]>>],
     [fn |-> "query_substations",
      batch |-> <<[attributes |-> [OBJECTID |-> Num(1), NAME |-> Str(<<"A">>),
                                   LATITUDE |-> Num(6001), LONGITUDE |-> Num(-15000)],
                   geometry |-> Absent]>>]}

\* query_pipelines and query_transmission_lines begin with
\* ensure_cache_dir(), query_substations does not
CallsEnsureCacheDir(name) ==
    name \in {"query_pipelines", "query_transmission_lines"}

\* the body of the for loop of a thread's function, on its own locals
ThreadBody(th) ==
    CASE th.fn = "query_pipelines" ->
            PipelinesBody(th.st, th.batch[th.i], 6000, -15000, <<>>, TRUE)
      [] th.fn = "query_transmission_lines" ->
            TransmissionBody(th.st, th.batch[th.i], 6000, -15000, 69, TRUE)
      [] OTHER ->
            SubstationsBody(th.st, th.batch[th.i], 6000, -15000)

\* ensure_cache_dir, line 38: `if not os.path.exists(CACHE_DIR)`
ThreadPathExists(t) ==
    /\ threads[t].pc = "start"
    /\ threads' = [threads EXCEPT
                     ![t].exists = PathExists(fs),
                     ![t].pc = IF PathExists(fs) THEN "fetch" ELSE "makedirs"]
    /\ UNCHANGED <<fs, reg>>
    /\ UNCHANGED <<qvars, mvars>>

\* ensure_cache_dir, line 39: os.makedirs(CACHE_DIR); the call is made
\* ahead of the function's try, so FileExistsError leaves the function
ThreadMakedirs(t) ==
    /\ threads[t].pc = "makedirs"
    /\ LET r == makedirs(fs)
       IN  /\ fs' = r.fs
           /\ threads' = [threads EXCEPT
                            ![t].raised = r.raised,
                            ![t].pc = IF r.raised THEN "done" ELSE "fetch"]
    /\ UNCHANGED reg
    /\ UNCHANGED <<qvars, mvars>>

\* the request, answered with the thread's batch; results and seen are
\* made anew
ThreadFetch(t) ==
    /\ threads[t].pc = "fetch"
    /\ threads' = [threads EXCEPT ![t].st = Locals0, ![t].i = 1, ![t].pc = "loop"]
    /\ UNCHANGED <<fs, reg>>
    /\ UNCHANGED <<qvars, mvars>>

\* one pass of the for loop
ThreadFeature(t) ==
    /\ threads[t].pc = "loop"
    /\ threads[t].i <= Len(threads[t].batch)
    /\ LET st == ThreadBody(threads[t])
       IN  threads' = [threads EXCEPT
                         ![t].st = st,
                         ![t].i = @ + 1,
                         ![t].pc = IF st.raised THEN "done" ELSE "loop"]
    /\ UNCHANGED <<fs, reg>>
    /\ UNCHANGED <<qvars, mvars>>

\* results.sort(...); return results
ThreadReturn(t) ==
    /\ threads[t].pc = "loop"
    /\ threads[t].i > Len(threads[t].batch)
    /\ threads' = [threads EXCEPT
                     ![t].ret = SortByDistance(threads[t].st.results),
                     ![t].pc = "done"]
    /\ UNCHANGED <<fs, reg>>
    /\ UNCHANGED <<qvars, mvars>>

ThreadStart(call) ==
    [fn |-> call.fn, batch |-> call.batch,
     pc |-> IF CallsEnsureCacheDir(call.fn) THEN "start" ELSE "fetch",
     exists |-> FALSE, st |-> Locals0, i |-> 1, ret |-> <<>>, raised |-> FALSE]

ConcInit ==
    /\ fs \in {NoCache, [dir |-> TRUE, file |-> Absent]}
    /\ threads \in [Threads -> {ThreadStart(call) : call \in ThreadCalls}]
    /\ reg = RegIdle
    /\ QueryIdle
    /\ MainIdle

ConcNext ==
    \E t \in Threads :
        \/ ThreadPathExists(t)
        \/ ThreadMakedirs(t)
        \/ ThreadFetch(t)
        \/ ThreadFeature(t)
        \/ ThreadReturn(t)

SpecConc == ConcInit /\ [][ConcNext]_vars

(***************************************************************************)
(* Vocabulary of the properties                                            *)
(***************************************************************************)
Polyline == fn \in {"query_pipelines", "query_transmission_lines"}

\* the position in the response of the raw record a feature was built from
\* (the service's record number, which the feature's record URL carries)
Source(f) == f.record_url.v

\* what the resolver returns for a raw record of the response
Resolved(rec) == _nearest_on_paths(shapely, lat, lon, rec.geometry.paths)

\* TRUE iff the raw record gets as far as the dedup test: it has attributes,
\* paths, a voltage that passes the filter, and a nearest point
Keyed(rec) ==
    /\ rec.attributes # Absent
    /\ rec.geometry # Absent
    /\ Len(rec.geometry.paths) > 0
    /\ fn = "query_transmission_lines" =>
           ParseVoltage(rec.attributes.VOLTAGE) >= min_voltage_kv
    /\ ~Resolved(rec).raised
    /\ Resolved(rec).nearest # None

\* the dedup key of a raw record: owner, (voltage,) distance in whole km
KeyOf(rec) ==
    IF fn = "query_pipelines"
    THEN <<ToStr(Get(rec.attributes.Operator, Unknown)),
           Round0(Resolved(rec).dist)>>
    ELSE <<ToStr(Get(rec.attributes.OWNER, Unknown)),
           ParseVoltage(rec.attributes.VOLTAGE),
           Round0(Resolved(rec).dist)>>

Returned == pc = "done" /\ ~warned /\ Len(features) > 0

(***************************************************************************)
(* C1  In query_pipelines and query_transmission_lines, records with the   *)
(* same dedup key collapse to exactly one feature: when the query returns, *)
(* every key that a raw record of the batch has belongs to exactly one     *)
(* returned feature, and that feature was built from the first record of   *)
(* the batch with the key (every later one was dropped).                   *)
(***************************************************************************)
C1_DedupCollapses ==
    (Polyline /\ Returned) =>
        \A j \in 1..Len(features) :
            Keyed(features[j]) =>
                LET same == {i \in 1..Len(ret) :
                                KeyOf(features[Source(ret[i])]) = KeyOf(features[j])}
                    first == CHOOSE k \in 1..j :
                                /\ Keyed(features[k])
                                /\ KeyOf(features[k]) = KeyOf(features[j])
                                /\ \A m \in 1..(k - 1) :
                                       ~(Keyed(features[m]) /\
                                         KeyOf(features[m]) = KeyOf(features[j]))
                IN  /\ Cardinality(same) = 1
                    /\ \A i \in same : Source(ret[i]) = first

\* a query has returned after dropping a record whose key was seen before,
\* at another distance than the record that was kept
C1_Witness ==
    /\ Polyline /\ Returned
    /\ \E i, j \in 1..Len(features) :
        /\ i < j
        /\ Keyed(features[i]) /\ Keyed(features[j])
        /\ KeyOf(features[i]) = KeyOf(features[j])
        /\ Resolved(features[i]).dist # Resolved(features[j]).dist
    /\ Len(ret) >= 2

(***************************************************************************)
(* C2  The list a query returns is sorted ascending by distance_km.        *)
(***************************************************************************)
C2_SortedByDistance ==
    pc = "done" =>
        \A i \in 1..(Len(ret) - 1) : ret[i].distance_km <= ret[i + 1].distance_km

\* a query has returned three features or more, at more than one distance,
\* in another order than the order of their raw records
C2_Witness ==
    /\ pc = "done"
    /\ Len(ret) >= 3
    /\ \E i \in 1..(Len(ret) - 1) :
          /\ ret[i].distance_km < ret[i + 1].distance_km
          /\ Source(ret[i]) > Source(ret[i + 1])

(***************************************************************************)
(* C3  Ranking is stable: two returned features with equal distance_km are *)
(* in the order of their raw records in the response.                      *)
(***************************************************************************)
C3_StableRanking ==
    pc = "done" =>
        \A i, j \in 1..Len(ret) :
            (i < j /\ ret[i].distance_km = ret[j].distance_km) =>
                Source(ret[i]) < Source(ret[j])

\* a query has returned two features at one distance, behind a nearer
\* feature whose raw record came after theirs
C3_Witness ==
    /\ pc = "done"
    /\ \E i, j, k \in 1..Len(ret) :
        /\ i < j /\ j < k
        /\ ret[i].distance_km < ret[j].distance_km
        /\ ret[j].distance_km = ret[k].distance_km
        /\ Source(ret[i]) > Source(ret[k])

(***************************************************************************)
(* Vocabulary of the resolver's properties                                 *)
(***************************************************************************)
\* the grid that haversine_distance is tabulated on, as <<lon, lat>>
GridPoints == {<<x, y>> : x \in -15000..-14996, y \in 6000..6004}

\* the grid points of the segment a-b
SegmentPoints(a, b) ==
    {p \in GridPoints :
        /\ (b[1] - a[1]) * (p[2] - a[2]) = (b[2] - a[2]) * (p[1] - a[1])
        /\ (p[1] - a[1]) * (p[1] - b[1]) <= 0
        /\ (p[2] - a[2]) * (p[2] - b[2]) <= 0}

\* the grid points of a polyline geometry, and its vertices
PathPoints(path) ==
    IF Len(path) = 1 THEN {<<path[1][1], path[1][2]>>}
    ELSE UNION {SegmentPoints(path[i], path[i + 1]) : i \in 1..(Len(path) - 1)}

GeometryPoints(paths) == UNION {PathPoints(paths[k]) : k \in 1..Len(paths)}

Vertices(paths) ==
    UNION {{<<paths[k][i][1], paths[k][i][2]>> : i \in 1..Len(paths[k])} :
              k \in 1..Len(paths)}

GreatCircle(p) == haversine_distance(lat, lon, p[2], p[1])

\* every vertex of the geometry is a list of at least two numbers
VerticesWellFormed(paths) ==
    \A k \in 1..Len(paths) : \A i \in 1..Len(paths[k]) : Len(paths[k][i]) >= 2

\* the geometry is one that segment projection handles: no path is empty
\* and LineString accepts every path of two or more vertices
Projectable(paths) ==
    /\ Len(paths) > 0
    /\ VerticesWellFormed(paths)
    /\ \A k \in 1..Len(paths) :
          Len(paths[k]) > 0 /\ ~LineStringRaises(paths[k])

\* the branches of _nearest_on_paths that a geometry goes through
Branches(paths) ==
    {IF Len(paths[k]) < 2 THEN "point"
     ELSE IF LineStringRaises(paths[k]) THEN "vertex"
     ELSE "projection" : k \in {k \in 1..Len(paths) : Len(paths[k]) > 0}}

(***************************************************************************)
(* C4  The distance that _nearest_on_paths returns is the least            *)
(* great-circle distance from the query point over all points of all       *)
(* segments of all paths; it is never greater than the great-circle        *)
(* distance to a vertex of a path.                                         *)
(***************************************************************************)
C4_MinimumGreatCircle ==
    \A k \in 1..Len(resolved) :
        LET paths == resolved[k].geometry.paths
            r == Resolved(resolved[k])
        IN  (shapely /\ Projectable(paths)) =>
                /\ ~r.raised
                /\ \A p \in GeometryPoints(paths) : r.dist <= GreatCircle(p)
                /\ \E p \in GeometryPoints(paths) : r.dist = GreatCircle(p)
                /\ \A v \in Vertices(paths) : r.dist <= GreatCircle(v)

(***************************************************************************)
(* Vocabulary of the batch properties                                      *)
(***************************************************************************)
\* the name field of a category: the attribute of the raw record and the
\* field of the feature
NameAttr(rec) ==
    CASE fn = "query_pipelines" -> rec.attributes.Operator
      [] fn = "query_transmission_lines" -> rec.attributes.OWNER
      [] OTHER -> rec.attributes.NAME

NameOf(f) ==
    CASE fn = "query_pipelines" -> f.operator
      [] fn = "query_transmission_lines" -> f.owner
      [] OTHER -> f.name

\* a raw record with attributes and a usable geometry that passes the
\* category's filter
Sound(rec) ==
    /\ rec.attributes # Absent
    /\ rec.geometry # Absent
    /\ IF Polyline
       THEN /\ Projectable(rec.geometry.paths)
            /\ fn = "query_transmission_lines" =>
                   ParseVoltage(rec.attributes.VOLTAGE) >= min_voltage_kv
       ELSE /\ rec.geometry.x # Absent
            /\ rec.attributes.LATITUDE # Absent

\* a sound record whose name attribute is a string, or missing
WellFormed(rec) == Sound(rec) /\ NameAttr(rec).t \in {"str", "absent"}

\* a record with malformed or empty geometry, or without attributes
Malformed(rec) ==
    \/ rec.attributes = Absent
    \/ rec.geometry = Absent
    \/ Len(rec.geometry.paths) = 0
    \/ \E k \in 1..Len(rec.geometry.paths) : Len(rec.geometry.paths[k]) = 0
    \/ ~VerticesWellFormed(rec.geometry.paths)

(***************************************************************************)
(* C5  A record with malformed or empty geometry, or without attributes,   *)
(* causes only that record to be skipped: every well-formed record of the  *)
(* batch still appears in the output (the first of each dedup key).        *)
(***************************************************************************)
C5_BadRecordSkippedAlone ==
    (/\ Polyline /\ pc = "done" /\ shapely
     /\ \A j \in 1..Len(features) :
            WellFormed(features[j]) \/ Malformed(features[j]))
    =>
        \A j \in 1..Len(features) :
            (/\ WellFormed(features[j])
             /\ \A m \in 1..(j - 1) :
                    ~(WellFormed(features[m]) /\
                      KeyOf(features[m]) = KeyOf(features[j])))
            => \E i \in 1..Len(ret) : Source(ret[i]) = j

(***************************************************************************)
(* C6  When shapely cannot be imported the query does not fail: a batch of *)
(* well-formed records still yields features (at the distance of the       *)
(* nearest vertex).                                                        *)
(***************************************************************************)
C6_DegradesWithoutShapely ==
    (/\ Polyline /\ pc = "done" /\ ~shapely
     /\ Len(features) > 0
     /\ \A j \in 1..Len(features) : WellFormed(features[j]))
    =>
        /\ ~warned
        /\ Len(ret) >= 1
        /\ \A i \in 1..Len(ret) :
              \E v \in Vertices(features[Source(ret[i])].geometry.paths) :
                  ret[i].distance_km = Round1(GreatCircle(v))

(***************************************************************************)
(* C7  A result of the degraded vertex-sampling path is distinguishable    *)
(* from a result of segment projection: two calls of the resolver that     *)
(* take different paths never return the same value.                       *)
(***************************************************************************)
C7_ModeDistinguishable ==
    \A j, k \in 1..Len(resolved) :
        LET pj == resolved[j].geometry.paths
            pk == resolved[k].geometry.paths
        IN  (/\ ~Resolved(resolved[j]).raised
             /\ ~Resolved(resolved[k]).raised
             /\ Branches(pj) = {"vertex"}
             /\ Branches(pk) = {"projection"})
            => Resolved(resolved[j]) # Resolved(resolved[k])

(***************************************************************************)
(* C8  A missing or null name/owner/operator attribute never causes a      *)
(* failure: for every watch-list the feature is emitted with "Unknown" in  *)
(* that field and the rest of the batch is unaffected.                     *)
(***************************************************************************)
C8_MissingNameDefaults ==
    (/\ pc = "done" /\ shapely
     /\ Len(features) > 0
     /\ \A j \in 1..Len(features) : Sound(features[j]))
    =>
        /\ ~warned
        /\ \A i \in 1..Len(ret) :
              NameAttr(features[Source(ret[i])]).t \in {"absent", "none"}
                  => NameOf(ret[i]) = Unknown

(***************************************************************************)
(* C9  For a latitude outside [-90, 90] or a longitude outside [-180, 180] *)
(* main exits with an error before any category query is invoked: no query *)
(* ever runs with an out-of-range coordinate.                              *)
(***************************************************************************)
OutOfRange(a) ==
    \/ a.lat.t # "num" \/ a.lat.v < -9000 \/ a.lat.v > 9000
    \/ a.lon.t # "num" \/ a.lon.v < -18000 \/ a.lon.v > 18000

C9_InvalidCoordinatesRejected ==
    /\ \A i \in 1..Len(calls) : ~OutOfRange(calls[i])
    /\ (OutOfRange(args) /\ mpc # "parsed") =>
          /\ mpc = "exited"
          /\ exit_code = Num(1)
          /\ calls = <<>>
          /\ printed = None

\* main has exited on a longitude out of range, the latitude being in range
C9_Witness ==
    /\ mpc = "exited"
    /\ exit_code = Num(1)
    /\ args.lat = Num(6000)
    /\ args.lon = Num(18001)
    /\ calls = <<>>

(***************************************************************************)
(* C10  A negative search radius is a contract violation: it produces an   *)
(* error, and no category query is issued with a negative radius_km.       *)
(***************************************************************************)
C10_NegativeRadiusRejected ==
    /\ \A i \in 1..Len(calls) :
          calls[i].radius_km # None => calls[i].radius_km.v >= 0
    /\ (args.radius # None /\ args.radius.v < 0 /\ mpc = "exited") =>
          exit_code = Num(1) /\ printed = None

(***************************************************************************)
(* C11  A response that was fetched and parsed and holds zero records (no  *)
(* "features" entry, or an empty list) yields an empty result list, and    *)
(* neither a warning nor an exception.                                     *)
(***************************************************************************)
C11_EmptyBatchEmptyResult ==
    (pc = "done" /\ data \in {"ok", "nokey"} /\ features = <<>>) =>
        ret = <<>> /\ ~warned

\* a query has returned on a payload without a "features" entry
C11_Witness ==
    /\ pc = "done"
    /\ data = "nokey"
    /\ features = <<>>
    /\ ret = <<>>

(***************************************************************************)
(* C12  is_target_operator is true exactly when some watch-list entry,     *)
(* lowercased, is a substring of the feature's operator, lowercased; and   *)
(* the watch-list never changes which records are included: for every      *)
(* watch-list the same response gives the same pipelines in the same       *)
(* order (include_all is left at its default, True).                       *)
(***************************************************************************)
\* a returned list without its is_target_operator flags
WithoutFlag(list) ==
    [i \in 1..Len(list) |->
        [operator |-> list[i].operator,
         distance_km |-> list[i].distance_km,
         distance_mi |-> list[i].distance_mi,
         nearest_point |-> list[i].nearest_point,
         record_url |-> list[i].record_url]]

C12_TargetFlagOnlyFlags ==
    (fn = "query_pipelines" /\ pc = "done" /\ data = "ok") =>
        /\ \A i \in 1..Len(ret) :
              ret[i].operator.t = "str" =>
                  (ret[i].is_target_operator <=>
                      \E k \in 1..Len(operators) :
                          Contains(Lower(operators[k]), Lower(ret[i].operator.v)))
        /\ \A other \in WatchLists :
              WithoutFlag(query_pipelines(FetchOk(features), lat, lon, other,
                                          shapely))
                  = WithoutFlag(ret)

(***************************************************************************)
(* C13  The on-disk cache is read-through only: no call of                 *)
(* load_epa_nonattainment_data (from check_attainment) creates, writes or  *)
(* overwrites anything; when the cache file is absent the built-in table   *)
(* is returned and the file system is left as it was.                      *)
(***************************************************************************)
C13_CacheReadOnly ==
    [][(reg.pc = "load" /\ reg'.pc = "lookup") =>
          /\ fs' = fs
          /\ fs.file = Absent =>
                 reg'.nonattainment_data = JsonDict(texas_nonattainment)]_vars

(***************************************************************************)
(* Vocabulary of the polygon properties                                    *)
(***************************************************************************)
\* the lattice of hundredths of a degree that the polygons lie on
CityGrid == {<<x, y>> : x \in -15000..-14994, y \in 5999..6005}

\* the bounding box of a ring
MinX(ring) == CHOOSE x \in {ring[i][1] : i \in 1..Len(ring)} :
                  \A i \in 1..Len(ring) : x <= ring[i][1]
MaxX(ring) == CHOOSE x \in {ring[i][1] : i \in 1..Len(ring)} :
                  \A i \in 1..Len(ring) : x >= ring[i][1]
MinY(ring) == CHOOSE y \in {ring[i][2] : i \in 1..Len(ring)} :
                  \A i \in 1..Len(ring) : y <= ring[i][2]
MaxY(ring) == CHOOSE y \in {ring[i][2] : i \in 1..Len(ring)} :
                  \A i \in 1..Len(ring) : y >= ring[i][2]

\* the ring is a closed rectangle with sides along the axes
Rectangular(ring) ==
    /\ Len(ring) = 5
    /\ ring[1] = ring[5]
    /\ {ring[i] : i \in 1..4} =
           {<<x, y>> : x \in {MinX(ring), MaxX(ring)},
                       y \in {MinY(ring), MaxY(ring)}}
    /\ MinX(ring) < MaxX(ring) /\ MinY(ring) < MaxY(ring)

\* q lies in the rectangle, its sides excluded / included
StrictlyIn(ring, q) ==
    /\ MinX(ring) < q[1] /\ q[1] < MaxX(ring)
    /\ MinY(ring) < q[2] /\ q[2] < MaxY(ring)

WithinOrOn(ring, q) ==
    /\ MinX(ring) <= q[1] /\ q[1] <= MaxX(ring)
    /\ MinY(ring) <= q[2] /\ q[2] <= MaxY(ring)

\* the lattice points of the sides of a rectangle
SidePoints(ring) == {p \in CityGrid : WithinOrOn(ring, p) /\ ~StrictlyIn(ring, p)}

\* the least great-circle distance from the query point to a set of points
LeastGreatCircle(points) ==
    CHOOSE d \in {GreatCircle(p) : p \in points} :
        \A p \in points : d <= GreatCircle(p)

\* a raw record with attributes, centroid texts and rectangular rings
PolygonRecord(rec) ==
    /\ rec.attributes # Absent
    /\ rec.attributes.CENTLAT.t = "str" /\ rec.attributes.CENTLON.t = "str"
    /\ rec.geometry # Absent
    /\ Len(rec.geometry.rings) > 0
    /\ \A k \in 1..Len(rec.geometry.rings) : Rectangular(rec.geometry.rings[k])

\* the features of the returned list that were built from the j-th record
PlaceHits(j) == {i \in 1..Len(ret) : ret[i].name = PlaceNames[j]}

\* inside is as the claim says, for the j-th record
C14_InsideAsClaimed(j) ==
    LET rings == features[j].geometry.rings
        q == <<lon, lat>>
    IN  \A i \in PlaceHits(j) :
            ret[i].inside <=>
                /\ StrictlyIn(rings[1], q)
                /\ \A k \in 2..Len(rings) : ~WithinOrOn(rings[k], q)

\* the record is emitted once, and an inside point has a positive distance
C14_EmittedPositive(j) ==
    /\ Cardinality(PlaceHits(j)) = 1
    /\ \A i \in PlaceHits(j) :
          ret[i].inside => ret[i].distance_to_boundary_km > 0

\* the boundary distance is the distance to the nearest point of the shell
C14_NearestOnExterior(j) ==
    \A i \in PlaceHits(j) :
        ret[i].distance_to_boundary_km =
            Round1(LeastGreatCircle(SidePoints(features[j].geometry.rings[1])))

(***************************************************************************)
(* C14  For every polygon record, inside is true exactly when the query    *)
(* point lies in the exterior ring and in none of the interior rings, and  *)
(* the boundary distance is the distance to the nearest point of the       *)
(* exterior ring, never of a hole; for a query point inside the polygon    *)
(* the record is emitted with inside = true and a positive distance.       *)
(***************************************************************************)
C14_PolygonContainment ==
    (fn = "query_city_limits_distance" /\ pc = "done" /\ ~warned) =>
        \A j \in 1..Len(features) :
            PolygonRecord(features[j]) =>
                /\ C14_InsideAsClaimed(j)
                /\ C14_EmittedPositive(j)
                /\ C14_NearestOnExterior(j)

\* the parts of C14 about containment and emission alone
C14_ContainmentAlone ==
    (fn = "query_city_limits_distance" /\ pc = "done" /\ ~warned) =>
        \A j \in 1..Len(features) :
            PolygonRecord(features[j]) =>
                C14_InsideAsClaimed(j) /\ C14_EmittedPositive(j)

(***************************************************************************)
(* C15  Substation coordinates follow an ordered fallback per field: the   *)
(* latitude is LATITUDE whenever it is present and non-null (0 included),  *)
(* else geometry.y; the longitude is LONGITUDE whenever present and        *)
(* non-null, else geometry.x; the two choices are independent, and a       *)
(* record is skipped only when a field has no non-null candidate.          *)
(***************************************************************************)
\* the first present non-null value of an attribute and a geometry member
FirstNonNull(attr, member) ==
    IF Get(attr, None) # None THEN attr ELSE Get(member, None)

LatitudeOf(rec) ==
    FirstNonNull(rec.attributes.LATITUDE,
                 IF rec.geometry = Absent THEN Absent ELSE rec.geometry.y)

LongitudeOf(rec) ==
    FirstNonNull(rec.attributes.LONGITUDE,
                 IF rec.geometry = Absent THEN Absent ELSE rec.geometry.x)

C15_OrderedFallbackPerField ==
    (fn = "query_substations" /\ pc = "done" /\ ~warned) =>
        \A j \in 1..Len(features) :
            features[j].attributes # Absent =>
                LET hits == {i \in 1..Len(ret) : Source(ret[i]) = j}
                IN  IF LatitudeOf(features[j]) = None \/ LongitudeOf(features[j]) = None
                    THEN hits = {}
                    ELSE /\ Cardinality(hits) = 1
                         /\ \A i \in hits :
                               /\ ret[i].lat = LatitudeOf(features[j]).v
                               /\ ret[i].lon = LongitudeOf(features[j]).v

(***************************************************************************)
(* C16  Calling the queries concurrently on independent batches is safe:   *)
(* in every interleaving of two calls each call returns exactly what it    *)
(* returns when it runs alone, and none raises because of the other.       *)
(***************************************************************************)
\* what a thread's call returns when it runs alone
Alone(th) ==
    CASE th.fn = "query_pipelines" ->
            query_pipelines(FetchOk(th.batch), 6000, -15000, <<>>, TRUE)
      [] th.fn = "query_transmission_lines" ->
            query_transmission_lines(FetchOk(th.batch), 6000, -15000, 69, TRUE)
      [] OTHER ->
            query_substations(FetchOk(th.batch), 6000, -15000)

C16_ConcurrentCallsIndependent ==
    \A t \in DOMAIN threads :
        threads[t].pc = "done" =>
            /\ ~threads[t].raised
            /\ threads[t].ret = Alone(threads[t])

\* the part of C16 about the results of the calls that return
C16_ResultsAsAlone ==
    \A t \in DOMAIN threads :
        (threads[t].pc = "done" /\ ~threads[t].raised) =>
            threads[t].ret = Alone(threads[t])

(***************************************************************************)
(* C17  The queries return the full deduplicated, sorted set with no top-N *)
(* cut: every record that survives filtering and dedup is in the returned  *)
(* list, whatever its count.  Truncation happens only in the markdown      *)
(* renderer (at most 15 pipelines, 10 transmission lines, 15 substations,  *)
(* 8 nearby cities), which shows a prefix of the list in the same order.   *)
(***************************************************************************)
\* the list of the category in the bundle, and its cap in the report
Listed == bundle[BundleKey(fn)]

CapOf(name) ==
    CASE name = "query_pipelines" -> 15
      [] name = "query_transmission_lines" -> 10
      [] name = "query_substations" -> 15
      [] OTHER -> 8

\* the feature was built from the j-th record of the batch
BuiltFrom(f, j) ==
    IF fn = "query_city_limits_distance" THEN f.name = Str(Decimal(j))
    ELSE f.record_url = Num(j)

C17_NoTopNInQueries ==
    (fn # "main" /\ mpc \in {"render", "exited"}) =>
        /\ Len(Listed) = Len(features)
        /\ \A j \in 1..Len(features) :
              \E i \in 1..Len(Listed) : BuiltFrom(Listed[i], j)
        /\ (printed # None /\ printed.format = "markdown") =>
              LET shown == printed[BundleKey(fn)]
              IN  /\ Len(shown) = Min(CapOf(fn), Len(Listed))
                  /\ \A i \in 1..Len(shown) :
                        shown[i].rank = i /\ shown[i].item = Listed[i]
        /\ (printed # None /\ printed.format = "json"
              /\ Polyline) =>
              printed[BundleKey(fn)].features = Listed

\* the report lists 15 of the 17 pipelines that the query returned
C17_Witness ==
    /\ mpc = "exited"
    /\ fn = "query_pipelines"
    /\ printed # None /\ printed.format = "markdown"
    /\ Len(bundle.pipelines) = 17
    /\ Len(printed.pipelines) = 15

(***************************************************************************)
(* C18  In query_pipelines and query_transmission_lines a record whose     *)
(* geometry is entirely empty (no paths, or only empty paths) yields no    *)
(* result and is skipped, the rest of the batch being kept: no returned    *)
(* feature carries the resolver's sentinel distance 999999 or lacks a      *)
(* nearest point.                                                          *)
(***************************************************************************)
\* a record with attributes and no vertex at all
EntirelyEmpty(rec) ==
    /\ rec.attributes # Absent
    /\ \/ rec.geometry = Absent
       \/ \A k \in 1..Len(rec.geometry.paths) : Len(rec.geometry.paths[k]) = 0

C18_EmptyGeometrySkipped ==
    (Polyline /\ pc = "done") =>
        /\ \A i \in 1..Len(ret) :
              /\ ret[i].nearest_point # None
              /\ ret[i].distance_km < Round1(Sentinel)
              /\ ~EntirelyEmpty(features[Source(ret[i])])
        /\ (/\ shapely /\ data = "ok"
            /\ \A j \in 1..Len(features) :
                  WellFormed(features[j]) \/ EntirelyEmpty(features[j]))
           =>
              /\ ~warned
              /\ \A j \in 1..Len(features) :
                    (/\ WellFormed(features[j])
                     /\ \A m \in 1..(j - 1) :
                           ~(WellFormed(features[m]) /\
                             KeyOf(features[m]) = KeyOf(features[j])))
                    => \E i \in 1..Len(ret) : Source(ret[i]) = j

\* a query has returned a feature of a batch in which a record had only an
\* empty path, for which the resolver was called
C18_Witness ==
    /\ Polyline /\ Returned
    /\ Len(ret) >= 1
    /\ \E j \in 1..Len(features) : features[j].geometry = GeomEmptyPath
    /\ \E k \in 1..Len(resolved) : resolved[k].geometry = GeomEmptyPath

(***************************************************************************)
(* C19  In query_transmission_lines the minimum-voltage filter comes       *)
(* before the distance computation: for a record whose parsed voltage      *)
(* (0 where the value does not parse) is below min_voltage_kv the          *)
(* resolver _nearest_on_paths is never invoked, the record puts no key     *)
(* into the dedup set `seen`, and every returned feature has               *)
(* voltage_kv >= min_voltage_kv.                                           *)
(***************************************************************************)
\* the record's voltage as the loop parses it
VoltageOf(rec) == ParseVoltage(rec.attributes.VOLTAGE)

\* the record has paths and a parsed voltage below the threshold
Filtered(rec) ==
    /\ rec.attributes # Absent
    /\ rec.geometry # Absent
    /\ Len(rec.geometry.paths) > 0
    /\ VoltageOf(rec) < min_voltage_kv

C19_VoltageFilterFirst ==
    fn = "query_transmission_lines" =>
        /\ \A k \in 1..Len(resolved) :
              /\ VoltageOf(resolved[k]) >= min_voltage_kv
              /\ \A j \in 1..Len(features) :
                    Filtered(features[j]) => resolved[k] # features[j]
        /\ \A key \in seen : key.voltage >= min_voltage_kv
        /\ \A i \in 1..Len(results) :
              /\ results[i].voltage_kv >= min_voltage_kv
              /\ ~Filtered(features[Source(results[i])])
        /\ \A i \in 1..Len(ret) :
              /\ ret[i].voltage_kv >= min_voltage_kv
              /\ ~Filtered(features[Source(ret[i])])

\* a query has returned a feature of a batch that also held a record below
\* the threshold and a record whose voltage does not parse
C19_Witness ==
    /\ fn = "query_transmission_lines" /\ Returned
    /\ Len(ret) >= 1
    /\ \E j, m \in 1..Len(features) :
          /\ Filtered(features[j])
          /\ features[j].attributes.VOLTAGE = Num(34)
          /\ Filtered(features[m])
          /\ features[m].attributes.VOLTAGE = Str(<<"n", "a">>)

(***************************************************************************)
(* C20  In _nearest_on_paths a path of exactly one vertex is an isolated   *)
(* point (the great-circle distance to that vertex) and raises nothing,    *)
(* an empty path contributes nothing, and the pair returned is the         *)
(* minimum over all paths of the feature: a short path among longer ones   *)
(* neither aborts the computation nor hides a nearer path.                 *)
(***************************************************************************)
\* the resolver's locals before the first path
Fresh == [raised |-> FALSE, dist |-> Sentinel, nearest |-> None]

\* every vertex of the record's paths has a longitude and a latitude
SoundVertices(rec) ==
    \A p \in 1..Len(rec.geometry.paths) :
        \A v \in 1..Len(rec.geometry.paths[p]) :
            Len(rec.geometry.paths[p][v]) >= 2

\* the paths that have a vertex
Live(paths) == {p \in 1..Len(paths) : Len(paths[p]) > 0}

\* what path p offers on its own: the vertex of a one-vertex path, the
\* nearest point found on a longer one
Candidate(paths, p) ==
    IF Len(paths[p]) = 1
    THEN LET c == paths[p][1]
         IN  [dist |-> haversine_distance(lat, lon, c[2], c[1]),
              nearest |-> Pt(c[2], c[1])]
    ELSE LET r == ResolvePath(lat, lon, paths[p], Fresh)
         IN  [dist |-> r.dist, nearest |-> r.nearest]

\* p is a path with the least candidate distance
Least(paths, p) ==
    /\ p \in Live(paths)
    /\ \A q \in Live(paths) : Candidate(paths, p).dist <= Candidate(paths, q).dist

C20_MinimumOverPaths ==
    (Polyline /\ shapely) =>
        /\ \A k \in 1..Len(resolved) :
              SoundVertices(resolved[k]) =>
                 LET paths == resolved[k].geometry.paths
                     r == Resolved(resolved[k])
                 IN  /\ ~r.raised
                     /\ IF Live(paths) = {}
                        THEN r.dist = Sentinel /\ r.nearest = None
                        ELSE \E p \in 1..Len(paths) :
                                /\ Least(paths, p)
                                /\ r.dist = Candidate(paths, p).dist
                                /\ r.nearest = Candidate(paths, p).nearest
        /\ \A i \in 1..Len(ret) :
              LET rec == features[Source(ret[i])]
                  paths == rec.geometry.paths
              IN  SoundVertices(rec) =>
                     \E p \in 1..Len(paths) :
                        /\ Least(paths, p)
                        /\ ret[i].distance_km = Round1(Candidate(paths, p).dist)
                        /\ ret[i].nearest_point = Candidate(paths, p).nearest

\* a query has returned the features of two records that mix a one-vertex
\* path with longer paths: in one the vertex is the nearest and comes first,
\* followed by an empty path, in the other the longer path is the nearest
C20_Witness ==
    /\ Polyline /\ Returned /\ shapely
    /\ \E i, j \in 1..Len(ret) :
          /\ features[Source(ret[i])].geometry = GeomMixed
          /\ ret[i].nearest_point = Pt(6001, -15000)
          /\ features[Source(ret[j])].geometry = GeomTwo
          /\ ret[j].nearest_point = Pt(6000, -14999)

(***************************************************************************)
(* C21  Deduplication never hides the nearest feature: for every batch     *)
(* given to query_pipelines or query_transmission_lines the smallest       *)
(* distance_km of the output equals the smallest distance, rounded to      *)
(* 0.1 km, over all eligible records of the input; a record dropped as a   *)
(* duplicate is never nearer than every record that is kept.               *)
(***************************************************************************)
\* the rounded distances of the records that reach the dedup test
EligibleDistances ==
    {Round1(Resolved(features[j]).dist) :
        j \in {m \in 1..Len(features) : Keyed(features[m])}}

C21_DedupKeepsNearest ==
    (Polyline /\ Returned) =>
        \A d \in EligibleDistances :
            \E i \in 1..Len(ret) : ret[i].distance_km <= d

(***************************************************************************)
(* C22  Category failures are isolated in main: for valid coordinates and  *)
(* any subset of upstream fetches that fail, main issues every category    *)
(* query in the order pipelines, transmission lines, substations, fiber,   *)
(* city limits, nearby cities, attainment, and renders exactly one report  *)
(* without exiting with status 1.                                          *)
(***************************************************************************)
CategoryOrder ==
    <<"query_pipelines", "query_transmission_lines", "query_substations",
      "query_fiber", "check_city_limits", "query_city_limits_distance",
      "check_attainment">>

C22_CategoryFailuresIsolated ==
    (mpc = "exited" /\ ~OutOfRange(args)) =>
        /\ exit_code = Num(0)
        /\ printed # None
        /\ Len(calls) = Len(CategoryOrder)
        /\ \A i \in 1..Len(calls) : calls[i].fn = CategoryOrder[i]

(***************************************************************************)
(* C23  The JSON report carries every category of the bundle that main     *)
(* assembles: the output of format_json holds the pipelines, transmission  *)
(* lines, substations, fiber, city limits, nearby cities and attainment    *)
(* data, and each `count` equals the length of its `features` list.        *)
(***************************************************************************)
\* the report has the list category `key` of the bundle, with its count
CarriesList(report, key) ==
    /\ key \in DOMAIN report
    /\ report[key].features = bundle[key]
    /\ report[key].count = Len(report[key].features)

C23_JsonCarriesBundle ==
    (mpc = "exited" /\ exit_code = Num(0) /\ args.format = "json") =>
        /\ CarriesList(printed, "pipelines")
        /\ CarriesList(printed, "transmission_lines")
        /\ printed.fiber = bundle.fiber
        /\ printed.city_limits = bundle.city_limits
        /\ printed.epa_attainment = bundle.attainment
        /\ CarriesList(printed, "substations")
        /\ CarriesList(printed, "nearby_cities")

(***************************************************************************)
(* C24  Every value check_attainment returns, on every path (county lookup *)
(* failed, lookup succeeded, exception raised), has attainment equal to    *)
(* "pollutants_nonattainment is empty"; when the county cannot be          *)
(* determined or an exception occurs the result is attainment = true with  *)
(* an empty pollutant list and an `error` field; check_attainment never    *)
(* raises: every call ends with a result.                                  *)
(***************************************************************************)
\* a call of check_attainment has returned
AttainmentReturned == reg.pc = "idle" /\ reg.calls > 0

\* the last call had no county, or found data in the cache that is no dict
\* (nonattainment_data.get raises)
NoCountyOrException ==
    \/ ~Truthy(reg.county_fips)
    \/ reg.nonattainment_data.t # "dict"

C24_AttainmentConsistent ==
    AttainmentReturned =>
        /\ reg.result # None
        /\ reg.result.attainment = (Len(reg.result.pollutants_nonattainment) = 0)
        /\ NoCountyOrException =>
              /\ reg.result.attainment
              /\ reg.result.pollutants_nonattainment = <<>>
              /\ reg.result.error # Absent
        /\ ~NoCountyOrException =>
              /\ reg.result.error = Absent
              /\ reg.result.county_fips = reg.county_fips
              /\ reg.result.pollutants_nonattainment =
                    IF reg.county_fips.v \in DOMAIN reg.nonattainment_data.v
                    THEN reg.nonattainment_data.v[reg.county_fips.v]
                    ELSE <<>>

\* a call on a file system without cache has found Harris County in
\* nonattainment, after an earlier call
C24_Witness ==
    /\ AttainmentReturned
    /\ reg.calls >= 2
    /\ reg.county_fips = HarrisFips
    /\ reg.result.attainment = FALSE
    /\ reg.result.pollutants_nonattainment = <<Ozone>>

====
